---- MODULE Spec2Model ----
(***************************************************************************)
(* A model of the fragmenta router: route patterns and their compilation   *)
(* (route.go), the route table and the dispatch pipeline (router.go, in    *)
(* its successive versions), and the request context (context.go).         *)
(*                                                                         *)
(* Strings are sequences of one-character strings.  Positions inside the   *)
(* operators that model Go code are Go's 0-based indices; Slice(s, a, b)   *)
(* is Go's s[a:b].                                                         *)
(***************************************************************************)
EXTENDS Integers, Sequences, FiniteSets, TLC

(***************************************************************************)
(* Strings                                                                 *)
(***************************************************************************)
NIL == "nil"

Slice(s, a, b) == SubSeq(s, a + 1, b)

\* strings.HasPrefix
HasPrefix(s, p) == Len(p) <= Len(s) /\ SubSeq(s, 1, Len(p)) = p

\* strings.Index for a one-character needle: Go's 0-based index, or -1
Index(s, c) ==
    IF \E k \in 1..Len(s) : s[k] = c
    THEN (CHOOSE k \in 1..Len(s) : s[k] = c /\ \A j \in 1..(k - 1) : s[j] # c) - 1
    ELSE -1

\* strings.Contains for a one-character needle
Contains(s, c) == Index(s, c) > -1

RECURSIVE Join(_, _)
\* strings.Join(segs, sep)
Join(segs, sep) ==
    IF Len(segs) = 0 THEN <<>>
    ELSE IF Len(segs) = 1 THEN segs[1]
    ELSE segs[1] \o sep \o Join(Tail(segs), sep)

RECURSIVE Split(_, _)
\* strings.Split(s, sep) for a one-character separator
Split(s, c) ==
    LET i == Index(s, c) IN
    IF i = -1 THEN <<s>>
    ELSE <<Slice(s, 0, i)>> \o Split(Slice(s, i + 1, Len(s)), c)

\* strings.SplitN(s, sep, 2) for a one-character separator
SplitN2(s, c) ==
    LET i == Index(s, c) IN
    IF i = -1 THEN <<s>>
    ELSE <<Slice(s, 0, i), Slice(s, i + 1, Len(s))>>

(***************************************************************************)
(* path.Clean (Go standard library), as ServeHTTP uses it.                 *)
(***************************************************************************)
RECURSIVE CleanSegs(_, _, _)
\* the segments kept by path.Clean: "" and "." dropped, ".." removes the
\* segment before it (at the root of a rooted path it is dropped, at the
\* start of a relative path it is kept)
CleanSegs(segs, out, rooted) ==
    IF Len(segs) = 0 THEN out
    ELSE LET h == Head(segs) IN
         IF h = <<>> \/ h = <<".">> THEN CleanSegs(Tail(segs), out, rooted)
         ELSE IF h = <<".", ".">> THEN
              IF Len(out) > 0 /\ out[Len(out)] # <<".", ".">>
              THEN CleanSegs(Tail(segs), SubSeq(out, 1, Len(out) - 1), rooted)
              ELSE IF rooted THEN CleanSegs(Tail(segs), out, rooted)
              ELSE CleanSegs(Tail(segs), Append(out, h), rooted)
         ELSE CleanSegs(Tail(segs), Append(out, h), rooted)

PathClean(p) ==
    IF Len(p) = 0 THEN <<".">>
    ELSE LET rooted == p[1] = "/"
             body   == Join(CleanSegs(Split(p, "/"), <<>>, rooted), <<"/">>)
         IN IF rooted THEN <<"/">> \o body
            ELSE IF Len(body) = 0 THEN <<".">> ELSE body

\* ServeHTTP's canonical path
CanonicalPath(raw) ==
    LET cleaned == PathClean(raw) IN
    IF Len(cleaned) = 0 THEN <<"/">>
    ELSE IF cleaned[1] # "/" THEN <<"/">> \o cleaned
    ELSE cleaned

(***************************************************************************)
(* Regular expressions (Go's regexp package), for the fragment of the      *)
(* syntax route patterns use: literals, escapes, ".", "^", "$", bracket    *)
(* classes, groups, alternation and the repetitions * + ? {m} {m,} {m,n}.  *)
(* A compiled expression is a tree; matching is leftmost-first (the        *)
(* preferences of a backtracking search), as regexp.Compile gives.         *)
(***************************************************************************)
Digits == <<"0", "1", "2", "3", "4", "5", "6", "7", "8", "9">>

Letters == <<"a", "b", "c", "d", "e", "f", "g", "h", "i", "j", "k", "l", "m",
             "n", "o", "p", "q", "r", "s", "t", "u", "v", "w", "x", "y", "z">>

CharOrder == Digits \o Letters

IsOrdered(c) == \E k \in 1..Len(CharOrder) : CharOrder[k] = c

Ord(c) == CHOOSE k \in 1..Len(CharOrder) : CharOrder[k] = c

CharRange(lo, hi) == {CharOrder[k] : k \in Ord(lo)..Ord(hi)}

IsDigit(c) == \E k \in 1..Len(Digits) : Digits[k] = c

DigitVal(c) == (CHOOSE k \in 1..Len(Digits) : Digits[k] = c) - 1

\* the characters regexp.QuoteMeta escapes
MetaChars == {"\\", ".", "+", "*", "?", "(", ")", "|", "[", "]", "{", "}", "^", "$"}

RECURSIVE QuoteMeta(_)
\* regexp.QuoteMeta
QuoteMeta(s) ==
    IF Len(s) = 0 THEN <<>>
    ELSE (IF Head(s) \in MetaChars THEN <<"\\", Head(s)>> ELSE <<Head(s)>>)
         \o QuoteMeta(Tail(s))

ReErr == [ok |-> FALSE]

RECURSIVE ReNumber(_, _, _)
\* the decimal number at s[i..], as [n, i]; n = -1 when there is none
ReNumber(s, i, acc) ==
    IF i <= Len(s) /\ IsDigit(s[i])
    THEN ReNumber(s, i + 1, (IF acc = -1 THEN 0 ELSE acc * 10) + DigitVal(s[i]))
    ELSE [n |-> acc, i |-> i]

\* a repetition {m}, {m,} or {m,n} at s[i] = "{", or ok = FALSE when the
\* text there is no repetition (the brace is then a literal)
ReBraceRepeat(s, i) ==
    LET m == ReNumber(s, i + 1, -1) IN
    IF m.n = -1 \/ m.i > Len(s) THEN ReErr
    ELSE IF s[m.i] = "}" THEN [ok |-> TRUE, lo |-> m.n, hi |-> m.n, i |-> m.i + 1]
    ELSE IF s[m.i] # "," THEN ReErr
    ELSE LET n == ReNumber(s, m.i + 1, -1) IN
         IF n.i > Len(s) \/ s[n.i] # "}" THEN ReErr
         ELSE IF n.n # -1 /\ n.n < m.n THEN ReErr
         ELSE [ok |-> TRUE, lo |-> m.n, hi |-> n.n, i |-> n.i + 1]

RECURSIVE ReClassItems(_, _, _, _)
\* the members of a bracket class, from s[i] to the closing "]"
ReClassItems(s, i, cs, first) ==
    IF i > Len(s) THEN ReErr
    ELSE IF s[i] = "]" /\ ~first THEN [ok |-> TRUE, cs |-> cs, i |-> i + 1]
    ELSE IF s[i] = "\\" THEN
         IF i + 1 > Len(s) THEN ReErr
         ELSE IF s[i + 1] = "d"
              THEN ReClassItems(s, i + 2, cs \cup CharRange("0", "9"), FALSE)
              ELSE ReClassItems(s, i + 2, cs \cup {s[i + 1]}, FALSE)
    ELSE IF i + 2 <= Len(s) /\ s[i + 1] = "-" /\ s[i + 2] # "]" THEN
         IF IsOrdered(s[i]) /\ IsOrdered(s[i + 2]) /\ Ord(s[i]) <= Ord(s[i + 2])
         THEN ReClassItems(s, i + 3, cs \cup CharRange(s[i], s[i + 2]), FALSE)
         ELSE ReErr
    ELSE ReClassItems(s, i + 1, cs \cup {s[i]}, FALSE)

ReClass(s, i) ==
    LET neg == i + 1 <= Len(s) /\ s[i + 1] = "^"
        r   == ReClassItems(s, IF neg THEN i + 2 ELSE i + 1, {}, TRUE)
    IN IF ~r.ok THEN ReErr
       ELSE [ok |-> TRUE, node |-> [t |-> "set", cs |-> r.cs, neg |-> neg], i |-> r.i]

\* the repetition operator, if any, that follows the atom r
RePostfix(s, r) ==
    IF ~r.ok \/ r.i > Len(s) THEN r
    ELSE LET c == s[r.i]
             rep(lo, hi, j) ==
                 IF j <= Len(s) /\ (s[j] \in {"*", "+"} \/ (s[j] = "{" /\ ReBraceRepeat(s, j).ok))
                 THEN ReErr
                 ELSE [ok |-> TRUE, i |-> j, g |-> r.g,
                       node |-> [t |-> "rep", lo |-> lo, hi |-> hi, sub |-> <<r.node>>]]
         IN IF c = "*" THEN rep(0, -1, r.i + 1)
            ELSE IF c = "+" THEN rep(1, -1, r.i + 1)
            ELSE IF c = "?" THEN rep(0, 1, r.i + 1)
            ELSE IF c = "{" /\ ReBraceRepeat(s, r.i).ok
                 THEN LET b == ReBraceRepeat(s, r.i) IN rep(b.lo, b.hi, b.i)
            ELSE r

\* the group whose inside parsed as r: its closing parenthesis
ReGroup(s, g, noncap, r) ==
    IF ~r.ok THEN ReErr
    ELSE IF r.i > Len(s) \/ s[r.i] # ")" THEN ReErr
    ELSE [ok |-> TRUE, i |-> r.i + 1, g |-> r.g,
          node |-> IF noncap THEN r.node
                   ELSE [t |-> "cap", idx |-> g, sub |-> <<r.node>>]]

\* an atom that is no group, at s[i]
ReSimpleAtom(s, i, g) ==
    LET c == s[i] IN
    IF c = "[" THEN
        LET r == ReClass(s, i) IN
        IF ~r.ok THEN ReErr ELSE [ok |-> TRUE, i |-> r.i, g |-> g, node |-> r.node]
    ELSE IF c = "\\" THEN
        IF i + 1 > Len(s) THEN ReErr
        ELSE IF s[i + 1] = "d"
             THEN [ok |-> TRUE, i |-> i + 2, g |-> g,
                   node |-> [t |-> "set", cs |-> CharRange("0", "9"), neg |-> FALSE]]
        ELSE IF IsOrdered(s[i + 1]) THEN ReErr
        ELSE [ok |-> TRUE, i |-> i + 2, g |-> g, node |-> [t |-> "lit", c |-> s[i + 1]]]
    ELSE IF c = "." THEN [ok |-> TRUE, i |-> i + 1, g |-> g, node |-> [t |-> "any"]]
    ELSE IF c = "^" THEN [ok |-> TRUE, i |-> i + 1, g |-> g, node |-> [t |-> "bot"]]
    ELSE IF c = "$" THEN [ok |-> TRUE, i |-> i + 1, g |-> g, node |-> [t |-> "eot"]]
    ELSE IF c \in {"*", "+", "?"} THEN ReErr
    ELSE IF c = "{" /\ ReBraceRepeat(s, i).ok THEN ReErr
    ELSE [ok |-> TRUE, i |-> i + 1, g |-> g, node |-> [t |-> "lit", c |-> c]]

RECURSIVE ReAlt(_, _, _, _), ReCat(_, _, _, _)

\* one atom at s[i], with g the number of the next capture group
ReAtom(s, i, g) ==
    IF s[i] # "(" THEN ReSimpleAtom(s, i, g)
    ELSE IF i + 2 <= Len(s) /\ s[i + 1] = "?" /\ s[i + 2] = ":"
         THEN ReGroup(s, g, TRUE, ReAlt(s, i + 3, g, <<>>))
         ELSE ReGroup(s, g, FALSE, ReAlt(s, i + 1, g + 1, <<>>))

\* the concatenation acc, with the atom r added, goes on
ReCatNext(s, acc, r) ==
    IF ~r.ok THEN ReErr ELSE ReCat(s, r.i, r.g, Append(acc, r.node))

\* a concatenation, up to "|", ")" or the end
ReCat(s, i, g, acc) ==
    IF i > Len(s) \/ s[i] \in {"|", ")"}
    THEN [ok |-> TRUE, i |-> i, g |-> g, node |-> [t |-> "cat", sub |-> acc]]
    ELSE ReCatNext(s, acc, RePostfix(s, ReAtom(s, i, g)))

\* the alternation acc, with the branch r added, goes on or ends
ReAltNext(s, acc, r) ==
    IF ~r.ok THEN ReErr
    ELSE IF r.i <= Len(s) /\ s[r.i] = "|" THEN ReAlt(s, r.i + 1, r.g, Append(acc, r.node))
    ELSE [ok |-> TRUE, i |-> r.i, g |-> r.g,
          node |-> IF Len(acc) = 0 THEN r.node
                   ELSE [t |-> "alt", sub |-> Append(acc, r.node)]]

\* an alternation, up to ")" or the end
ReAlt(s, i, g, acc) == ReAltNext(s, acc, ReCat(s, i, g, <<>>))

\* regexp.Compile: [ok, node, ngroups]
RegexpCompile(s) ==
    LET whole(r) == IF ~r.ok \/ r.i <= Len(s) THEN ReErr
                    ELSE [ok |-> TRUE, node |-> r.node, ngroups |-> r.g - 1]
    IN whole(ReAlt(s, 1, 1, <<>>))

RECURSIVE ReM(_, _, _, _), ReMCat(_, _, _, _, _), ReMEach(_, _, _, _, _),
          ReMAlt(_, _, _, _, _), ReMRep(_, _, _, _, _), ReMRepEach(_, _, _, _, _, _),
          ReMCap(_, _, _, _)

\* the ways node n matches s from position pos (1-based), in the order of
\* preference, each as [pos |-> the position after the match, caps]
ReM(n, s, pos, caps) ==
    IF n.t = "lit" THEN
        IF pos <= Len(s) /\ s[pos] = n.c THEN <<[pos |-> pos + 1, caps |-> caps]>> ELSE <<>>
    ELSE IF n.t = "any" THEN
        IF pos <= Len(s) THEN <<[pos |-> pos + 1, caps |-> caps]>> ELSE <<>>
    ELSE IF n.t = "set" THEN
        IF pos <= Len(s) /\ ((s[pos] \in n.cs) # n.neg)
        THEN <<[pos |-> pos + 1, caps |-> caps]>> ELSE <<>>
    ELSE IF n.t = "bot" THEN
        IF pos = 1 THEN <<[pos |-> pos, caps |-> caps]>> ELSE <<>>
    ELSE IF n.t = "eot" THEN
        IF pos = Len(s) + 1 THEN <<[pos |-> pos, caps |-> caps]>> ELSE <<>>
    ELSE IF n.t = "cat" THEN ReMCat(n.sub, 1, s, pos, caps)
    ELSE IF n.t = "alt" THEN ReMAlt(n.sub, 1, s, pos, caps)
    ELSE IF n.t = "cap" THEN ReMCap(ReM(n.sub[1], s, pos, caps), 1, n.idx, pos)
    ELSE ReMRep(n, 0, s, pos, caps)

ReMCat(ns, i, s, pos, caps) ==
    IF i > Len(ns) THEN <<[pos |-> pos, caps |-> caps]>>
    ELSE ReMEach(ReM(ns[i], s, pos, caps), 1, ns, i + 1, s)

ReMEach(rs, k, ns, i, s) ==
    IF k > Len(rs) THEN <<>>
    ELSE ReMCat(ns, i, s, rs[k].pos, rs[k].caps) \o ReMEach(rs, k + 1, ns, i, s)

ReMAlt(ns, i, s, pos, caps) ==
    IF i > Len(ns) THEN <<>>
    ELSE ReM(ns[i], s, pos, caps) \o ReMAlt(ns, i + 1, s, pos, caps)

ReMCap(rs, k, idx, from) ==
    IF k > Len(rs) THEN <<>>
    ELSE <<[pos |-> rs[k].pos,
            caps |-> [rs[k].caps EXCEPT ![idx] = <<from, rs[k].pos>>]]>>
         \o ReMCap(rs, k + 1, idx, from)

\* greedy repetition: one more iteration is preferred to stopping
ReMRep(n, count, s, pos, caps) ==
    (IF n.hi = -1 \/ count < n.hi
     THEN ReMRepEach(ReM(n.sub[1], s, pos, caps), 1, n, count + 1, s, pos)
     ELSE <<>>)
    \o (IF count >= n.lo THEN <<[pos |-> pos, caps |-> caps]>> ELSE <<>>)

ReMRepEach(rs, k, n, count, s, from) ==
    IF k > Len(rs) THEN <<>>
    ELSE (IF rs[k].pos > from \/ count <= n.lo
          THEN (IF rs[k].pos > from THEN ReMRep(n, count, s, rs[k].pos, rs[k].caps)
                ELSE IF count >= n.lo THEN <<[pos |-> rs[k].pos, caps |-> rs[k].caps]>>
                ELSE ReMRep(n, n.lo, s, rs[k].pos, rs[k].caps))
          ELSE <<>>)
         \o ReMRepEach(rs, k + 1, n, count, s, from)

NoCaps(re) == [k \in 1..re.ngroups |-> <<0, 0>>]

RECURSIVE ReSearch(_, _, _)
\* the leftmost match of re in s, from start position pos on: <<>> or <<m>>
ReSearch(re, s, pos) ==
    IF pos > Len(s) + 1 THEN <<>>
    ELSE LET first(rs) ==
                 IF Len(rs) > 0 THEN <<[from |-> pos, to |-> rs[1].pos, caps |-> rs[1].caps]>>
                 ELSE ReSearch(re, s, pos + 1)
         IN first(ReM(re.node, s, pos, NoCaps(re)))

\* Regexp.MatchString
MatchString(re, s) == Len(ReSearch(re, s, 1)) > 0

\* Regexp.FindStringSubmatch: <<>> for Go's nil (no match), or the whole
\* match followed by the text of each group ("" for a group that took no
\* part in the match)
FindStringSubmatch(re, s) ==
    LET submatches(m) ==
            IF Len(m) = 0 THEN <<>>
            ELSE <<SubSeq(s, m[1].from, m[1].to - 1)>> \o
                 [k \in 1..re.ngroups |->
                    IF m[1].caps[k] = <<0, 0>> THEN <<>>
                    ELSE SubSeq(s, m[1].caps[k][1], m[1].caps[k][2] - 1)]
    IN submatches(ReSearch(re, s, 1))

(***************************************************************************)
(* Routes (route.go)                                                       *)
(***************************************************************************)
\* a nil *Route, and a nil *regexp.Regexp
NilRoute == [nil |-> TRUE]

NilRegexp == [ok |-> FALSE]

\* a nil map[string]string, and the fresh map make() gives
NilParams == [nil |-> TRUE, kv |-> <<>>]

MakeParams == [nil |-> FALSE, kv |-> <<>>]

MapSet(m, k, v) == [y \in (DOMAIN m) \cup {k} |-> IF y = k THEN v ELSE m[y]]

\* (a short pattern that does not stop at the first {)
shortPattern_IgnoreBrace(p) == Slice(p, 0, IF Len(p) < 3 THEN Len(p) ELSE 3)

\* shortPattern: at most 3 characters of the pattern, before the first {
shortPattern(p) ==
    LET l0 == IF Len(p) < 3 THEN Len(p) ELSE 3
        i  == Index(p, "{")
        l  == IF i > -1 /\ i < 3 THEN i ELSE l0
    IN Slice(p, 0, l)

RECURSIVE findBracesFrom_EveryOpen(_, _, _, _, _)
\* a loop that notes the index of every opening brace, whatever the level
findBracesFrom_EveryOpen(s, i, level, idx, idxs) ==
    IF i >= Len(s)
    THEN IF level # 0 THEN [err |-> TRUE, idxs |-> <<>>]
         ELSE [err |-> FALSE, idxs |-> idxs]
    ELSE IF s[i + 1] = "{"
         THEN findBracesFrom_EveryOpen(s, i + 1, level + 1, i, idxs)
    ELSE IF s[i + 1] = "}"
         THEN IF level - 1 = 0
              THEN findBracesFrom_EveryOpen(s, i + 1, 0, idx, idxs \o <<idx, i + 1>>)
              ELSE IF level - 1 < 0 THEN [err |-> TRUE, idxs |-> <<>>]
              ELSE findBracesFrom_EveryOpen(s, i + 1, level - 1, idx, idxs)
    ELSE findBracesFrom_EveryOpen(s, i + 1, level, idx, idxs)

RECURSIVE findBracesFrom(_, _, _, _, _)
\* the loop of findBraces, at Go index i
findBracesFrom(s, i, level, idx, idxs) ==
    IF i >= Len(s)
    THEN IF level # 0 THEN [err |-> TRUE, idxs |-> <<>>]
         ELSE [err |-> FALSE, idxs |-> idxs]
    ELSE IF s[i + 1] = "{"
         THEN findBracesFrom(s, i + 1, level + 1, IF level + 1 = 1 THEN i ELSE idx, idxs)
    ELSE IF s[i + 1] = "}"
         THEN IF level - 1 = 0
              THEN findBracesFrom(s, i + 1, 0, idx, idxs \o <<idx, i + 1>>)
              ELSE IF level - 1 < 0 THEN [err |-> TRUE, idxs |-> <<>>]
              ELSE findBracesFrom(s, i + 1, level - 1, idx, idxs)
    ELSE findBracesFrom(s, i + 1, level, idx, idxs)

\* findBraces: the first-level brace indices, or an error
findBraces(s) == findBracesFrom(s, 0, 0, 0, <<>>)

\* strings.LastIndex-like split: the text before and after the last c
SplitLast2(s, c) ==
    IF ~Contains(s, c) THEN <<s>>
    ELSE LET at(k) == <<SubSeq(s, 1, k - 1), SubSeq(s, k + 1, Len(s))>>
         IN at(CHOOSE k \in 1..Len(s) : s[k] = c /\ \A j \in (k + 1)..Len(s) : s[j] # c)

RECURSIVE compileLoop_LastColon(_, _, _, _, _, _)
\* a loop that splits the placeholder on its last ":"
compileLoop_LastColon(pat, idxs, i, end, names, out) ==
    IF i >= Len(idxs)
    THEN [err |-> FALSE, names |-> names, end |-> end, out |-> out]
    ELSE LET raw   == Slice(pat, end, idxs[i + 1])
             end2  == idxs[i + 2]
             parts == SplitLast2(Slice(pat, idxs[i + 1] + 1, end2 - 1), ":")
         IN IF Len(parts) # 2
            THEN [err |-> TRUE, names |-> names, end |-> end2, out |-> out]
            ELSE compileLoop_LastColon(pat, idxs, i + 2, end2, Append(names, parts[1]),
                             out \o QuoteMeta(raw) \o <<"(">> \o parts[2] \o <<")">>)

RECURSIVE compileLoop(_, _, _, _, _, _)
\* the loop of compileRegexp over the brace indices, two at a time (i is
\* Go's index into idxs)
compileLoop(pat, idxs, i, end, names, out) ==
    IF i >= Len(idxs)
    THEN [err |-> FALSE, names |-> names, end |-> end, out |-> out]
    ELSE LET raw   == Slice(pat, end, idxs[i + 1])
             end2  == idxs[i + 2]
             parts == SplitN2(Slice(pat, idxs[i + 1] + 1, end2 - 1), ":")
         IN IF Len(parts) # 2
            THEN [err |-> TRUE, names |-> names, end |-> end2, out |-> out]
            ELSE compileLoop(pat, idxs, i + 2, end2, Append(names, parts[1]),
                             out \o QuoteMeta(raw) \o <<"(">> \o parts[2] \o <<")">>)

\* a compilation that closes the expression with an end anchor
compileRegexp_EndAnchored(r) ==
    LET compiled(c, re) ==
            [err |-> ~re.ok,
             r   |-> [r EXCEPT !.ParamNames = c.names,
                               !.Regexp = IF re.ok THEN re ELSE NilRegexp]]
        looped(c) ==
            IF c.err THEN [err |-> TRUE, r |-> [r EXCEPT !.ParamNames = c.names]]
            ELSE compiled(c, RegexpCompile(c.out \o QuoteMeta(Slice(r.Pattern, c.end,
                                                                    Len(r.Pattern)))
                                           \o <<"$">>))
        braced(b) ==
            IF b.err THEN [err |-> TRUE, r |-> r]
            ELSE looped(compileLoop(r.Pattern, b.idxs, 0, 0, r.ParamNames, <<"^">>))
    IN braced(findBraces(r.Pattern))

\* compileRegexp: the route with Regexp and ParamNames set, or an error
compileRegexp(r) ==
    LET compiled(c, re) ==
            [err |-> ~re.ok,
             r   |-> [r EXCEPT !.ParamNames = c.names,
                               !.Regexp = IF re.ok THEN re ELSE NilRegexp]]
        looped(c) ==
            IF c.err THEN [err |-> TRUE, r |-> [r EXCEPT !.ParamNames = c.names]]
            ELSE compiled(c, RegexpCompile(c.out \o QuoteMeta(Slice(r.Pattern, c.end,
                                                                    Len(r.Pattern)))))
        braced(b) ==
            IF b.err THEN [err |-> TRUE, r |-> r]
            ELSE looped(compileLoop(r.Pattern, b.idxs, 0, 0, r.ParamNames, <<"^">>))
    IN braced(findBraces(r.Pattern))

\* NewRoute: [err, route]; the route is nil when the pattern does not compile
NewRoute(pattern, handler) ==
    LET compiled(c) == IF c.err THEN [err |-> TRUE, route |-> NilRoute]
                       ELSE [err |-> FALSE, route |-> c.r]
        r == [nil            |-> FALSE,
              Handler        |-> handler,
              Pattern        |-> pattern,
              PatternShort   |-> shortPattern(pattern),
              Regexp         |-> NilRegexp,
              ParamNames     |-> <<>>,
              Params         |-> NilParams,
              RedirectPath   |-> <<>>,
              RedirectStatus |-> 0,
              methods        |-> <<"GET">>]
    IN IF Contains(pattern, "{")
       THEN compiled(compileRegexp(r))
       ELSE [err |-> FALSE, route |-> r]

\* Route.MatchMethod
MatchMethod(r, method) ==
    LET m == IF method = "" THEN "GET" ELSE method IN
    \E k \in 1..Len(r.methods) : r.methods[k] = m

AssetsPrefix == <<"/", "a", "s", "s", "e", "t", "s">>

\* a matcher without the rule of the reserved prefix
MatchPath_NoAssets(r, path) ==
    IF Len(r.PatternShort) > 0 /\ ~HasPrefix(path, r.PatternShort) THEN FALSE
    ELSE IF r.Regexp.ok THEN MatchString(r.Regexp, path)
    ELSE r.Pattern = path

\* a matcher that takes a literal pattern as a prefix of the path
MatchPath_Prefix(r, path) ==
    IF HasPrefix(path, AssetsPrefix) THEN FALSE
    ELSE IF Len(r.PatternShort) > 0 /\ ~HasPrefix(path, r.PatternShort) THEN FALSE
    ELSE IF r.Regexp.ok THEN MatchString(r.Regexp, path)
    ELSE HasPrefix(path, r.Pattern)

\* Route.MatchPath
MatchPath(r, path) ==
    IF HasPrefix(path, AssetsPrefix) THEN FALSE
    ELSE IF Len(r.PatternShort) > 0 /\ ~HasPrefix(path, r.PatternShort) THEN FALSE
    ELSE IF r.Regexp.ok THEN MatchString(r.Regexp, path)
    ELSE r.Pattern = path

RECURSIVE ParseLoop(_, _, _, _)
\* the loop of Route.Parse over ParamNames (i is Go's index)
ParseLoop(names, i, matches, kv) ==
    IF i >= Len(names) THEN kv
    ELSE LET index == i + 1 IN
         IF Len(matches) > index
         THEN ParseLoop(names, i + 1, matches, MapSet(kv, names[i + 1], matches[index + 1]))
         ELSE ParseLoop(names, i + 1, matches, kv)

\* Route.Parse: the value of r.Params when Parse(path) returns
Parse(r, path) ==
    IF ~r.Regexp.ok THEN MakeParams
    ELSE LET params(matches) ==
                 IF Len(matches) > 0
                 THEN [nil |-> FALSE, kv |-> ParseLoop(r.ParamNames, 0, matches, <<>>)]
                 ELSE MakeParams
         IN params(FindStringSubmatch(r.Regexp, path))

(***************************************************************************)
(* Inputs of the model                                                     *)
(***************************************************************************)
\* the most routes and filters registered
MaxRoutes == 2

MaxFilters == 2

\* request tasks and registering tasks
Reqs == {"q1"}

Regs == {"g1"}

PatLiteral == <<"/", "a">>

PatParam == <<"/", "u", "/", "{", "i", "d", ":", "[", "0", "-", "9", "]", "+", "}">>

PatUnbalanced == <<"/", "u", "/", "{", "i", "d">>

PatNoColon == <<"/", "u", "/", "{", "i", "d", "}">>

\* the patterns given to Add, and those given to AddRedirect
Patterns == {PatLiteral, PatParam, PatUnbalanced, PatNoColon}

RedirectPatterns == {PatLiteral, PatUnbalanced}

Handlers == {"h1"}

FilterIds == {"f1", "f2"}

RedirectTarget == <<"/", "n">>

\* the status codes given to AddRedirect
RedirectStatuses == {301, 0}

Methods == {"", "GET", "POST"}

\* raw request paths (request.URL.Path)
RawPaths == {<<"/", "a", "/">>, <<"/", "u", "/", "7">>, <<"/", "b">>}

\* the errors a filter or a handler returns (NIL: no error)
Errors == {"e1", "e2"}

\* the errors of fileHandler
FileErrors == {"NotFound", "NotAuthorized"}

(***************************************************************************)
(* State                                                                   *)
(***************************************************************************)
VARIABLES
    routes,     \* Router.routes: the routes, in registration order
    filters,    \* Router.filters: the filters, in registration order
    mu,         \* Router.mu, a sync.RWMutex
    reg,        \* the position of each registering task
    req,        \* each request task: its position, request and context
    crashed,    \* the process ended on a panic nothing recovers
    call        \* the call of a function of the package made on its own

vars == <<routes, filters, mu, reg, req, crashed, call>>

\* no call made
NoCall == [op |-> "none"]

\* a request task with no request
IdleReq == [pc |-> "idle", method |-> "", raw |-> <<>>, path |-> <<>>,
            route |-> 0, fi |-> 0, err |-> NIL, log |-> <<>>,
            got |-> NilParams, ri |-> 0, rn |-> 0, data |-> NilParams]

Init ==
    /\ routes = <<>>
    /\ filters = <<>>
    /\ mu = [readers |-> 0, writer |-> NIL, pending |-> NIL]
    /\ reg = [g \in Regs |-> "idle"]
    /\ req = [q \in Reqs |-> IdleReq]
    /\ crashed = FALSE
    /\ call = NoCall

\* what a request did, in order: the event e with its argument a (a filter's
\* position and name, the handler, the path served, the redirect's target
\* and status) and the error r it returned or was given (NIL: none)
Event(e, a, r) == [e |-> e, a |-> a, r |-> r]

IsEvent(ev, e, a, r) == ev.e = e /\ ev.r = r /\ ev.a = a

(***************************************************************************)
(* sync.RWMutex: a Lock that waits for the readers to leave holds back     *)
(* every later RLock.                                                      *)
(***************************************************************************)
CanRLock == mu.writer = NIL /\ mu.pending = NIL

RLocked(n) == [mu EXCEPT !.readers = @ + n]

RUnlocked(n) == [mu EXCEPT !.readers = @ - n]

(***************************************************************************)
(* Registration (router.go with the mutex): Add, AddRedirect, AddFilter    *)
(***************************************************************************)
\* r.mu.Lock() is called: the writer announces itself
LockRequest(g) ==
    /\ ~crashed
    /\ reg[g] = "idle"
    /\ mu.writer = NIL /\ mu.pending = NIL
    /\ mu' = [mu EXCEPT !.pending = g]
    /\ reg' = [reg EXCEPT ![g] = "waiting"]
    /\ UNCHANGED <<routes, filters, req, crashed, call>>

\* (a Lock that does not wait for the readers to leave)
LockAcquire_NoWait(g) ==
    /\ ~crashed
    /\ reg[g] = "waiting"
    /\ mu' = [mu EXCEPT !.pending = NIL, !.writer = g]
    /\ reg' = [reg EXCEPT ![g] = "locked"]
    /\ UNCHANGED <<routes, filters, req, crashed, call>>

\* r.mu.Lock() returns, once no reader holds the lock
LockAcquire(g) ==
    /\ ~crashed
    /\ reg[g] = "waiting"
    /\ mu.readers = 0
    /\ mu' = [mu EXCEPT !.pending = NIL, !.writer = g]
    /\ reg' = [reg EXCEPT ![g] = "locked"]
    /\ UNCHANGED <<routes, filters, req, crashed, call>>

\* (an Add that puts the new route at the head of the list)
Add_Prepend(g, pattern, handler) ==
    /\ ~crashed
    /\ reg[g] = "locked"
    /\ Len(routes) < MaxRoutes
    /\ routes' = <<NewRoute(pattern, handler).route>> \o routes
    /\ mu' = [mu EXCEPT !.writer = NIL]
    /\ reg' = [reg EXCEPT ![g] = "idle"]
    /\ UNCHANGED <<filters, req, crashed, call>>

\* Router.Add, from NewRoute to the deferred Unlock
Add(g, pattern, handler) ==
    /\ ~crashed
    /\ reg[g] = "locked"
    /\ Len(routes) < MaxRoutes
    /\ routes' = Append(routes, NewRoute(pattern, handler).route)
    /\ mu' = [mu EXCEPT !.writer = NIL]
    /\ reg' = [reg EXCEPT ![g] = "idle"]
    /\ UNCHANGED <<filters, req, crashed, call>>

\* Router.AddRedirect, from NewRoute to the deferred Unlock; setting
\* RedirectPath on a nil route is a nil dereference
AddRedirect(g, pattern, redirectPath, status) ==
    /\ ~crashed
    /\ reg[g] = "locked"
    /\ Len(routes) < MaxRoutes
    /\ LET set(route) ==
               IF route.nil
               THEN /\ crashed' = TRUE
                    /\ UNCHANGED routes
               ELSE /\ routes' = Append(routes, [route EXCEPT !.RedirectPath = redirectPath,
                                                             !.RedirectStatus = status])
                    /\ UNCHANGED crashed
       IN set(NewRoute(pattern, NIL).route)
    /\ mu' = [mu EXCEPT !.writer = NIL]
    /\ reg' = [reg EXCEPT ![g] = "idle"]
    /\ UNCHANGED <<filters, req, call>>

\* Router.AddFilter
AddFilter(g, filter) ==
    /\ ~crashed
    /\ reg[g] = "locked"
    /\ Len(filters) < MaxFilters
    /\ \A k \in 1..Len(filters) : filters[k] # filter
    /\ filters' = Append(filters, filter)
    /\ mu' = [mu EXCEPT !.writer = NIL]
    /\ reg' = [reg EXCEPT ![g] = "idle"]
    /\ UNCHANGED <<routes, req, crashed, call>>

\* Route.Method (and Get, Post, Put, Delete), called on a registered route
RouteMethod(i, method) ==
    /\ ~crashed
    /\ i \in 1..Len(routes)
    /\ ~routes[i].nil
    /\ routes[i].methods # <<method>>
    /\ routes' = [routes EXCEPT ![i].methods = <<method>>]
    /\ UNCHANGED <<filters, mu, reg, req, crashed, call>>

(***************************************************************************)
(* Lookup (Router.findRoute)                                               *)
(***************************************************************************)
RECURSIVE findRouteFrom(_, _, _, _)
\* the scan of findRoute from index i on: the index of the route returned,
\* 0 for nil, -1 when the scan reaches a nil route (MatchMethod on a nil
\* *Route dereferences it: a panic)
findRouteFrom(rs, i, method, canonicalPath) ==
    IF i > Len(rs) THEN 0
    ELSE IF rs[i].nil THEN -1
    ELSE IF MatchMethod(rs[i], method) /\ MatchPath(rs[i], canonicalPath) THEN i
    ELSE findRouteFrom(rs, i + 1, method, canonicalPath)

findRoute(rs, method, canonicalPath) == findRouteFrom(rs, 1, method, canonicalPath)

(***************************************************************************)
(* Dispatch (Router.ServeHTTP, router.go with the mutex and ErrorHandler)  *)
(***************************************************************************)
\* ServeHTTP is called: RLock, and the path is cleaned
Begin(q, method, raw) ==
    /\ ~crashed
    /\ req[q].pc = "idle"
    /\ CanRLock
    /\ mu' = RLocked(1)
    /\ req' = [req EXCEPT ![q] = [IdleReq EXCEPT !.pc = "lookup", !.method = method,
                                                 !.raw = raw, !.path = CanonicalPath(raw)]]
    /\ UNCHANGED <<routes, filters, reg, crashed, call>>

\* findRoute: RLock, the scan, RUnlock.  A panic in the scan unwinds
\* through both deferred RUnlocks and ends the request.
FindRoute(q) ==
    /\ ~crashed
    /\ req[q].pc = "lookup"
    /\ CanRLock
    /\ LET found(i) ==
               IF i = -1
               THEN /\ req' = [req EXCEPT ![q].pc = "panicked"]
                    /\ mu' = RUnlocked(1)
               ELSE /\ req' = [req EXCEPT ![q].pc = "found", ![q].route = i]
                    /\ UNCHANGED mu
       IN found(findRoute(routes, req[q].method, req[q].path))
    /\ UNCHANGED <<routes, filters, reg, crashed, call>>

\* the matched route is a redirect: http.Redirect and return
Redirect(q) ==
    /\ ~crashed
    /\ req[q].pc = "found"
    /\ req[q].route # 0
    /\ routes[req[q].route].RedirectStatus # 0
    /\ req' = [req EXCEPT ![q].pc = "done",
                          ![q].log = Append(@, Event("redirect",
                                                     <<routes[req[q].route].RedirectPath,
                                                       routes[req[q].route].RedirectStatus>>,
                                                     NIL))]
    /\ mu' = RUnlocked(1)
    /\ UNCHANGED <<routes, filters, reg, crashed, call>>

\* (a ServeHTTP that goes on after it has found a redirect route)
Setup_AfterRedirect(q) ==
    /\ ~crashed
    /\ req[q].pc = "found"
    /\ req' = [req EXCEPT ![q].pc = "filters", ![q].fi = 0]
    /\ UNCHANGED <<routes, filters, mu, reg, crashed, call>>

\* no redirect: the context is set up and the filters are next
Setup(q) ==
    /\ ~crashed
    /\ req[q].pc = "found"
    /\ req[q].route # 0 => routes[req[q].route].RedirectStatus = 0
    /\ req' = [req EXCEPT ![q].pc = "filters", ![q].fi = 0]
    /\ UNCHANGED <<routes, filters, mu, reg, crashed, call>>

\* the handler ServeHTTP took from the route (nil without a route)
HandlerOf(q) == IF req[q].route = 0 THEN NIL ELSE routes[req[q].route].Handler

\* (a filter loop that goes on to the next filter after an error)
Filter_Continue(q, err) ==
    /\ ~crashed
    /\ req[q].pc = "filters"
    /\ req[q].fi < Len(filters)
    /\ req' = [req EXCEPT ![q].fi = @ + 1,
                          ![q].log = Append(@, Event("filter", <<req[q].fi + 1, filters[req[q].fi + 1]>>, err)),
                          ![q].err = err]
    /\ UNCHANGED <<routes, filters, mu, reg, crashed, call>>

\* one turn of the loop over r.filters: the filter returns err
Filter(q, err) ==
    /\ ~crashed
    /\ req[q].pc = "filters"
    /\ req[q].fi < Len(filters)
    /\ req' = [req EXCEPT ![q].fi = @ + 1,
                          ![q].log = Append(@, Event("filter", <<req[q].fi + 1, filters[req[q].fi + 1]>>, err)),
                          ![q].pc = IF err # NIL THEN "error" ELSE "filters",
                          ![q].err = err]
    /\ UNCHANGED <<routes, filters, mu, reg, crashed, call>>

\* (a handler whose error is dropped)
Handle_IgnoreErr(q, err) ==
    /\ ~crashed
    /\ req[q].pc = "filters"
    /\ req[q].fi >= Len(filters)
    /\ HandlerOf(q) # NIL
    /\ req' = [req EXCEPT ![q].log = Append(@, Event("handler", HandlerOf(q), err)),
                          ![q].pc = "done",
                          ![q].err = err]
    /\ mu' = RUnlocked(1)
    /\ UNCHANGED <<routes, filters, reg, crashed, call>>

\* (a handler that does not wait for the end of the filter loop)
Handle_Early(q, err) ==
    /\ ~crashed
    /\ req[q].pc = "filters"
    /\ req[q].route # 0
    /\ routes[req[q].route].Handler # NIL
    /\ req' = [req EXCEPT ![q].log = Append(@, Event("handler", routes[req[q].route].Handler, err)),
                          ![q].pc = IF err # NIL THEN "error" ELSE "done",
                          ![q].err = err]
    /\ mu' = IF err # NIL THEN mu ELSE RUnlocked(1)
    /\ UNCHANGED <<routes, filters, reg, crashed, call>>

\* after the filters, the route's handler, which returns err
Handle(q, err) ==
    /\ ~crashed
    /\ req[q].pc = "filters"
    /\ req[q].fi >= Len(filters)
    /\ HandlerOf(q) # NIL
    /\ req' = [req EXCEPT ![q].log = Append(@, Event("handler", HandlerOf(q), err)),
                          ![q].pc = IF err # NIL THEN "error" ELSE "done",
                          ![q].err = err]
    /\ mu' = IF err # NIL THEN mu ELSE RUnlocked(1)
    /\ UNCHANGED <<routes, filters, reg, crashed, call>>

\* (a fallback that does not ask whether the route has a handler)
File_DespiteHandler(q, err) ==
    /\ ~crashed
    /\ req[q].pc = "filters"
    /\ req[q].fi >= Len(filters)
    /\ req' = [req EXCEPT ![q].log = Append(@, Event("file", req[q].path, err)),
                          ![q].pc = IF err # NIL THEN "error" ELSE "done",
                          ![q].err = err]
    /\ mu' = IF err # NIL THEN mu ELSE RUnlocked(1)
    /\ UNCHANGED <<routes, filters, reg, crashed, call>>

\* (a fallback whose error is dropped)
File_Swallow(q, err) ==
    /\ ~crashed
    /\ req[q].pc = "filters"
    /\ req[q].fi >= Len(filters)
    /\ req[q].route # 0 => routes[req[q].route].Handler = NIL
    /\ req' = [req EXCEPT ![q].log = Append(@, Event("file", req[q].path, err)),
                          ![q].pc = "done",
                          ![q].err = err]
    /\ mu' = RUnlocked(1)
    /\ UNCHANGED <<routes, filters, reg, crashed, call>>

\* after the filters, without a handler: r.FileHandler, which returns err
File(q, err) ==
    /\ ~crashed
    /\ req[q].pc = "filters"
    /\ req[q].fi >= Len(filters)
    /\ HandlerOf(q) = NIL
    /\ req' = [req EXCEPT ![q].log = Append(@, Event("file", req[q].path, err)),
                          ![q].pc = IF err # NIL THEN "error" ELSE "done",
                          ![q].err = err]
    /\ mu' = IF err # NIL THEN mu ELSE RUnlocked(1)
    /\ UNCHANGED <<routes, filters, reg, crashed, call>>

\* (an error handler call with no return after it: ServeHTTP goes on)
ErrorHandler_NoReturn(q) ==
    /\ ~crashed
    /\ req[q].pc = "error"
    /\ req' = [req EXCEPT ![q].log = Append(@, Event("error", NIL, req[q].err)),
                          ![q].pc = "filters"]
    /\ UNCHANGED <<routes, filters, mu, reg, crashed, call>>

\* r.ErrorHandler(context, err) and return
ErrorHandler(q) ==
    /\ ~crashed
    /\ req[q].pc = "error"
    /\ req' = [req EXCEPT ![q].log = Append(@, Event("error", NIL, req[q].err)),
                          ![q].pc = "done"]
    /\ mu' = RUnlocked(1)
    /\ UNCHANGED <<routes, filters, reg, crashed, call>>

\* the request is over: the task takes the next one
End(q) ==
    /\ ~crashed
    /\ req[q].pc \in {"done", "panicked"}
    /\ req' = [req EXCEPT ![q] = IdleReq]
    /\ UNCHANGED <<routes, filters, mu, reg, crashed, call>>

Next ==
    \/ \E g \in Regs : LockRequest(g)
    \/ \E g \in Regs : LockAcquire(g)
    \/ \E g \in Regs, p \in Patterns, h \in Handlers : Add(g, p, h)
    \/ \E g \in Regs, p \in RedirectPatterns, s \in RedirectStatuses :
            AddRedirect(g, p, RedirectTarget, s)
    \/ \E g \in Regs, f \in FilterIds : AddFilter(g, f)
    \/ \E i \in 1..MaxRoutes : RouteMethod(i, "POST")
    \/ \E q \in Reqs, m \in Methods, raw \in RawPaths : Begin(q, m, raw)
    \/ \E q \in Reqs : FindRoute(q)
    \/ \E q \in Reqs : Redirect(q)
    \/ \E q \in Reqs : Setup(q)
    \/ \E q \in Reqs, e \in Errors \cup {NIL} : Filter(q, e)
    \/ \E q \in Reqs, e \in Errors \cup {NIL} : Handle(q, e)
    \/ \E q \in Reqs, e \in FileErrors \cup {NIL} : File(q, e)
    \/ \E q \in Reqs : ErrorHandler(q)
    \/ \E q \in Reqs : End(q)

Spec == Init /\ [][Next]_vars

(***************************************************************************)
(* The same router, with routes and requests under the reserved prefix     *)
(***************************************************************************)
\* patterns given to Add and AddRedirect: /assets/a, /assets/{f:[a-z]+}, /a
AssetPatterns ==
    {<<"/", "a", "s", "s", "e", "t", "s", "/", "a">>,
     <<"/", "a", "s", "s", "e", "t", "s", "/", "{", "f", ":", "[", "a", "-", "z", "]", "+", "}">>,
     PatLiteral}

\* raw request paths: /assets/a/, /assets, /b/../assets/a, /a/
AssetRawPaths ==
    {<<"/", "a", "s", "s", "e", "t", "s", "/", "a", "/">>,
     <<"/", "a", "s", "s", "e", "t", "s">>,
     <<"/", "b", "/", ".", ".", "/", "a", "s", "s", "e", "t", "s", "/", "a">>,
     <<"/", "a", "/">>}

NextAssets ==
    \/ \E g \in Regs : LockRequest(g)
    \/ \E g \in Regs : LockAcquire(g)
    \/ \E g \in Regs, p \in AssetPatterns, h \in Handlers : Add(g, p, h)
    \/ \E g \in Regs, p \in AssetPatterns : AddRedirect(g, p, RedirectTarget, 301)
    \/ \E g \in Regs : AddFilter(g, "f1")
    \/ \E q \in Reqs, raw \in AssetRawPaths : Begin(q, "GET", raw)
    \/ \E q \in Reqs : FindRoute(q)
    \/ \E q \in Reqs : Redirect(q)
    \/ \E q \in Reqs : Setup(q)
    \/ \E q \in Reqs, e \in {NIL, "e1"} : Filter(q, e)
    \/ \E q \in Reqs, e \in {NIL, "e1"} : Handle(q, e)
    \/ \E q \in Reqs, e \in {NIL, "NotFound"} : File(q, e)
    \/ \E q \in Reqs : ErrorHandler(q)
    \/ \E q \in Reqs : End(q)

SpecAssets == Init /\ [][NextAssets]_vars

(***************************************************************************)
(* The router before the mutex and the error handler: registration takes   *)
(* no lock, a filter's error ends the request, handlers return nothing,    *)
(* every request ends with Router.Reset, and the context reads the route   *)
(* parameters from the slot of the shared Route (Route.Params), which      *)
(* Route.Parse fills.  Requests run concurrently, one goroutine each.      *)
(***************************************************************************)
ReqsV1 == {"q1", "q2"}

PatternsV1 == {PatParam, PatUnbalanced}

RawPathsV1 == {<<"/", "u", "/", "7">>, <<"/", "u", "/", "8">>, <<"/", "a", "/">>}

InitV1 ==
    /\ routes = <<>>
    /\ filters = <<>>
    /\ mu = [readers |-> 0, writer |-> NIL, pending |-> NIL]
    /\ reg = [g \in Regs |-> "idle"]
    /\ req = [q \in ReqsV1 |-> IdleReq]
    /\ crashed = FALSE
    /\ call = NoCall

\* Router.Add
V1Add(pattern, handler) ==
    /\ Len(routes) < MaxRoutes
    /\ routes' = Append(routes, NewRoute(pattern, handler).route)
    /\ UNCHANGED <<filters, mu, reg, req, crashed, call>>

\* Router.AddRedirect
V1AddRedirect(pattern, redirectPath, status) ==
    /\ Len(routes) < MaxRoutes
    /\ LET set(route) ==
               /\ ~route.nil
               /\ routes' = Append(routes, [route EXCEPT !.RedirectPath = redirectPath,
                                                         !.RedirectStatus = status])
       IN set(NewRoute(pattern, NIL).route)
    /\ UNCHANGED <<filters, mu, reg, req, crashed, call>>

\* Router.AddFilter
V1AddFilter(filter) ==
    /\ Len(filters) < MaxFilters
    /\ \A k \in 1..Len(filters) : filters[k] # filter
    /\ filters' = Append(filters, filter)
    /\ UNCHANGED <<routes, mu, reg, req, crashed, call>>

\* ServeHTTP is called: Reset is deferred and the path is cleaned
V1Begin(q, method, raw) ==
    /\ req[q].pc = "idle"
    /\ req' = [req EXCEPT ![q] = [IdleReq EXCEPT !.pc = "v1lookup", !.method = method,
                                                 !.raw = raw, !.path = CanonicalPath(raw)]]
    /\ UNCHANGED <<routes, filters, mu, reg, crashed, call>>

\* findRoute; a panic in the scan runs the deferred Reset on its way out
V1FindRoute(q) ==
    /\ req[q].pc = "v1lookup"
    /\ LET found(i) ==
               IF i = -1
               THEN req' = [req EXCEPT ![q].pc = "v1reset", ![q].err = "panic"]
               ELSE req' = [req EXCEPT ![q].pc = "v1found", ![q].route = i]
       IN found(findRoute(routes, req[q].method, req[q].path))
    /\ UNCHANGED <<routes, filters, mu, reg, crashed, call>>

\* the route has no handler and a redirect status: http.Redirect and return
V1Redirect(q) ==
    /\ req[q].pc = "v1found"
    /\ req[q].route # 0
    /\ routes[req[q].route].Handler = NIL
    /\ routes[req[q].route].RedirectStatus # 0
    /\ req' = [req EXCEPT ![q].pc = "v1reset",
                          ![q].log = Append(@, Event("redirect",
                                                     <<routes[req[q].route].RedirectPath,
                                                       routes[req[q].route].RedirectStatus>>,
                                                     NIL))]
    /\ UNCHANGED <<routes, filters, mu, reg, crashed, call>>

\* otherwise the context is set up
V1Setup(q) ==
    /\ req[q].pc = "v1found"
    /\ req[q].route # 0
       => (routes[req[q].route].Handler # NIL \/ routes[req[q].route].RedirectStatus = 0)
    /\ req' = [req EXCEPT ![q].pc = "v1filters", ![q].fi = 0]
    /\ UNCHANGED <<routes, filters, mu, reg, crashed, call>>

\* one turn of the loop over r.filters; an error is logged and ends the request
V1Filter(q, err) ==
    /\ req[q].pc = "v1filters"
    /\ req[q].fi < Len(filters)
    /\ req' = [req EXCEPT ![q].fi = @ + 1,
                          ![q].log = Append(@, Event("filter", <<req[q].fi + 1, filters[req[q].fi + 1]>>, err)),
                          ![q].pc = IF err # NIL THEN "v1reset" ELSE "v1filters",
                          ![q].err = err]
    /\ UNCHANGED <<routes, filters, mu, reg, crashed, call>>

\* the route's handler runs; it may ask the context for the parameters
V1Handle(q, asksParams) ==
    /\ req[q].pc = "v1filters"
    /\ req[q].fi >= Len(filters)
    /\ HandlerOf(q) # NIL
    /\ req' = [req EXCEPT ![q].log = Append(@, Event("handler", HandlerOf(q), NIL)),
                          ![q].pc = IF asksParams THEN "v1params" ELSE "v1reset"]
    /\ UNCHANGED <<routes, filters, mu, reg, crashed, call>>

\* ConcreteContext.Params: is the slot of the route nil?
V1ParamsCheck(q) ==
    /\ req[q].pc = "v1params"
    /\ req' = [req EXCEPT ![q].pc = IF routes[req[q].route].Params.nil
                                    THEN "v1parse" ELSE "v1read"]
    /\ UNCHANGED <<routes, filters, mu, reg, crashed, call>>

\* ... it was: c.route.Parse(c.path) fills the slot
V1Parse(q) ==
    /\ req[q].pc = "v1parse"
    /\ routes' = [routes EXCEPT ![req[q].route].Params =
                                    Parse(routes[req[q].route], req[q].path)]
    /\ req' = [req EXCEPT ![q].pc = "v1read"]
    /\ UNCHANGED <<filters, mu, reg, crashed, call>>

\* ... and the parameters are read from the slot; the handler returns
V1ParamsRead(q) ==
    /\ req[q].pc = "v1read"
    /\ req' = [req EXCEPT ![q].got = [nil |-> FALSE, kv |-> routes[req[q].route].Params.kv],
                          ![q].pc = "v1reset"]
    /\ UNCHANGED <<routes, filters, mu, reg, crashed, call>>

\* without a handler: the file handler
V1File(q) ==
    /\ req[q].pc = "v1filters"
    /\ req[q].fi >= Len(filters)
    /\ HandlerOf(q) = NIL
    /\ req' = [req EXCEPT ![q].log = Append(@, Event("file", req[q].path, NIL)),
                          ![q].pc = "v1reset"]
    /\ UNCHANGED <<routes, filters, mu, reg, crashed, call>>

\* the deferred Router.Reset: one turn of its loop over r.routes (the range
\* is taken when the loop starts), or its end and the return of ServeHTTP.
\* Route.Reset on a nil route is a nil dereference.
V1Reset(q) ==
    /\ req[q].pc = "v1reset"
    /\ LET n == IF req[q].ri = 0 THEN Len(routes) ELSE req[q].rn
           i == IF req[q].ri = 0 THEN 1 ELSE req[q].ri
       IN IF i > n
          THEN /\ req' = [req EXCEPT ![q].pc = IF req[q].err = "panic"
                                               THEN "panicked" ELSE "done"]
               /\ UNCHANGED routes
          ELSE IF routes[i].nil
          THEN /\ req' = [req EXCEPT ![q].pc = "panicked"]
               /\ UNCHANGED routes
          ELSE /\ routes' = [routes EXCEPT ![i].Params = NilParams]
               /\ req' = [req EXCEPT ![q].ri = i + 1, ![q].rn = n]
    /\ UNCHANGED <<filters, mu, reg, crashed, call>>

\* the request is over: the task takes the next one
V1End(q) ==
    /\ req[q].pc \in {"done", "panicked"}
    /\ req' = [req EXCEPT ![q] = IdleReq]
    /\ UNCHANGED <<routes, filters, mu, reg, crashed, call>>

\* the most calls of context.Get one request makes
MaxGets == 2

\* context.Set(k, v), called by a filter or the handler of the request: the
\* context of this router is made without its data map, and an assignment
\* to an entry of a nil map panics (the deferred Reset runs on the way out)
V1ContextSet(q, k, v) ==
    /\ req[q].pc = "v1filters"
    /\ IF req[q].data.nil
       THEN req' = [req EXCEPT ![q].log = Append(@, Event("set", <<k, v>>, "panic")),
                               ![q].pc = "v1reset",
                               ![q].err = "panic"]
       ELSE req' = [req EXCEPT ![q].log = Append(@, Event("set", <<k, v>>, NIL)),
                               ![q].data.kv = MapSet(@, k, v)]
    /\ UNCHANGED <<routes, filters, mu, reg, crashed, call>>

\* context.Get(k), called by a filter or the handler of the request: nil
\* for a key the map does not have, and for every key of a nil map
V1ContextGet(q, k) ==
    /\ req[q].pc = "v1filters"
    /\ Cardinality({i \in 1..Len(req[q].log) : req[q].log[i].e = "get"}) < MaxGets
    /\ req' = [req EXCEPT ![q].log = Append(@, Event("get", k,
                                IF k \in DOMAIN req[q].data.kv THEN req[q].data.kv[k] ELSE NIL))]
    /\ UNCHANGED <<routes, filters, mu, reg, crashed, call>>

\* requests of the router before the mutex whose file handler uses the
\* data of the context (no route is registered)
NextDataV1 ==
    \/ \E q \in ReqsV1 : V1Begin(q, "GET", <<"/", "a", "/">>)
    \/ \E q \in ReqsV1 : V1FindRoute(q)
    \/ \E q \in ReqsV1 : V1Setup(q)
    \/ \E q \in ReqsV1, k \in {"k1", "k2"}, v \in {"v1", "v2"} : V1ContextSet(q, k, v)
    \/ \E q \in ReqsV1, k \in {"k1", "k2"} : V1ContextGet(q, k)
    \/ \E q \in ReqsV1 : V1File(q)
    \/ \E q \in ReqsV1 : V1Reset(q)
    \/ \E q \in ReqsV1 : V1End(q)

SpecDataV1 == InitV1 /\ [][NextDataV1]_vars

NextV1 ==
    \/ \E p \in PatternsV1, h \in Handlers : V1Add(p, h)
    \/ V1AddRedirect(PatLiteral, RedirectTarget, 301)
    \/ \E f \in {"f1"} : V1AddFilter(f)
    \/ \E q \in ReqsV1, raw \in RawPathsV1 : V1Begin(q, "GET", raw)
    \/ \E q \in ReqsV1 : V1FindRoute(q)
    \/ \E q \in ReqsV1 : V1Redirect(q)
    \/ \E q \in ReqsV1 : V1Setup(q)
    \/ \E q \in ReqsV1, e \in {NIL, "e1"} : V1Filter(q, e)
    \/ \E q \in ReqsV1, asks \in BOOLEAN : V1Handle(q, asks)
    \/ \E q \in ReqsV1 : V1ParamsCheck(q)
    \/ \E q \in ReqsV1 : V1Parse(q)
    \/ \E q \in ReqsV1 : V1ParamsRead(q)
    \/ \E q \in ReqsV1 : V1File(q)
    \/ \E q \in ReqsV1 : V1Reset(q)
    \/ \E q \in ReqsV1 : V1End(q)

SpecV1 == InitV1 /\ [][NextV1]_vars

(***************************************************************************)
(* The functions of the package called on their own: one call at a time,   *)
(* on inputs drawn from small sets; call holds the call and its result.    *)
(***************************************************************************)
\* Route.Method
Method(r, method) == [r EXCEPT !.methods = <<method>>]

\* Route.Get, Post, Put, Delete
Get(r) == Method(r, "GET")

Post(r) == Method(r, "POST")

Put(r) == Method(r, "PUT")

Delete(r) == Method(r, "DELETE")

\* Route.Accept
Accept(r, method) ==
    IF ~MatchMethod(r, method) THEN [r EXCEPT !.methods = Append(@, method)] ELSE r

\* Route.Methods
MethodsSet(r, permitted) == [r EXCEPT !.methods = permitted]

\* the longest list of methods a route is given
MaxMethods == 3

MethodNames == {"", "GET", "POST", "PUT"}

\* the lists Route.Methods is called with; the first is the empty list
MethodLists == {<<>>, <<"POST">>, <<"GET", "POST">>, <<"POST", "POST">>}

\* the patterns NewRoute is called with: those of the router's model, and
\*   /{x:[a-z]+}/{y:[0-9]}   two placeholders
\*   /{x:(a|b)}/{y:[0-9]}    a fragment with parentheses of its own
\*   /u/{id:[0-9]+$}         a fragment that ends in "$"
\*   /u/{id:[0-9]{1,2}}      a fragment with braces of its own
\*   /{x:[a-z]+}             a placeholder straight after the first "/"
\*   /assets/a               a pattern under the reserved prefix
\*   /{x:a}/{y}  /{y}/{x:a}  a placeholder without ":" after and before one with
\*   /{x:a:b}                a placeholder with two ":"
\*   /u/{x:a)|(b}            a fragment that closes the group it is put in
CallPatterns ==
    Patterns \cup
    {<<"/", "{", "x", ":", "[", "a", "-", "z", "]", "+", "}",
       "/", "{", "y", ":", "[", "0", "-", "9", "]", "}">>,
     <<"/", "{", "x", ":", "(", "a", "|", "b", ")", "}",
       "/", "{", "y", ":", "[", "0", "-", "9", "]", "}">>,
     <<"/", "u", "/", "{", "i", "d", ":", "[", "0", "-", "9", "]", "+", "$", "}">>,
     <<"/", "u", "/", "{", "i", "d", ":", "[", "0", "-", "9", "]", "{", "1", ",", "2", "}", "}">>,
     <<"/", "{", "x", ":", "[", "a", "-", "z", "]", "+", "}">>,
     <<"/", "a", "s", "s", "e", "t", "s", "/", "a">>,
     <<"/", "{", "x", ":", "a", "}", "/", "{", "y", "}">>,
     <<"/", "{", "y", "}", "/", "{", "x", ":", "a", "}">>,
     <<"/", "{", "x", ":", "a", ":", "b", "}">>,
     <<"/", "u", "/", "{", "x", ":", "a", ")", "|", "(", "b", "}">>}

\* the paths MatchPath and Parse are called with
CallPaths ==
    {<<>>, <<"/">>, <<"/", "a">>, <<"/", "a", "b">>, <<"/", "a", ":", "b">>,
     <<"/", "z", "b">>, <<"/", "a", "/", "b">>,
     <<"/", "u">>, <<"/", "u", "/", "7">>, <<"/", "u", "/", "7", "8">>,
     <<"/", "u", "/", "7", "/", "x">>, <<"/", "u", "/", "7", "8", "9">>,
     <<"/", "u", "/", "x">>, <<"/", "a", "/", "7">>, <<"/", "b", "/", "7">>,
     <<"/", "a", "/", "7", "/", "z">>, <<"/", "c", "/", "7">>,
     <<"/", "a", "s", "s", "e", "t", "s">>,
     <<"/", "a", "s", "s", "e", "t", "s", "/", "a">>,
     <<"/", "a", "s", "s", "e", "t", "s", "/", "a", "/", "b">>}

\* NewRoute(pattern, handler)
CallNewRoute(pattern, handler) ==
    /\ call' = [op |-> "route", did |-> "NewRoute", path |-> <<>>, matched |-> FALSE,
                pattern |-> pattern, arg |-> "", before |-> <<>>,
                err |-> NewRoute(pattern, handler).err,
                route |-> NewRoute(pattern, handler).route]
    /\ UNCHANGED <<routes, filters, mu, reg, req, crashed>>

\* route.Get(), route.Post(), route.Put(), route.Delete()
CallVerb(verb) ==
    /\ call.op = "route"
    /\ ~call.route.nil
    /\ call' = [call EXCEPT !.did = "modifier",
                             !.route = CASE verb = "Get" -> Get(@)
                                        [] verb = "Post" -> Post(@)
                                        [] verb = "Put" -> Put(@)
                                        [] OTHER -> Delete(@)]
    /\ UNCHANGED <<routes, filters, mu, reg, req, crashed>>

\* route.Method(method)
CallMethod(method) ==
    /\ call.op = "route"
    /\ ~call.route.nil
    /\ call' = [call EXCEPT !.did = "Method", !.arg = method,
                             !.before = call.route.methods,
                             !.route = Method(@, method)]
    /\ UNCHANGED <<routes, filters, mu, reg, req, crashed>>

\* route.Accept(method)
CallAccept(method) ==
    /\ call.op = "route"
    /\ ~call.route.nil
    /\ Len(call.route.methods) < MaxMethods
    /\ call' = [call EXCEPT !.did = "Accept", !.arg = method,
                             !.before = call.route.methods,
                             !.route = Accept(@, method)]
    /\ UNCHANGED <<routes, filters, mu, reg, req, crashed>>

\* route.Methods(permitted)
CallMethods(permitted) ==
    /\ call.op = "route"
    /\ ~call.route.nil
    /\ call' = [call EXCEPT !.did = "modifier", !.route = MethodsSet(@, permitted)]
    /\ UNCHANGED <<routes, filters, mu, reg, req, crashed>>

\* route.MatchPath(path)
CallMatchPath(path) ==
    /\ call.op = "route"
    /\ ~call.route.nil
    /\ call' = [call EXCEPT !.did = "MatchPath", !.path = path,
                            !.matched = MatchPath(call.route, path)]
    /\ UNCHANGED <<routes, filters, mu, reg, req, crashed>>

\* route.Parse(path), on a path the route matches
CallParse ==
    /\ call.op = "route"
    /\ call.did = "MatchPath"
    /\ call.matched
    /\ call' = [call EXCEPT !.did = "Parse",
                            !.route.Params = Parse(call.route, call.path)]
    /\ UNCHANGED <<routes, filters, mu, reg, req, crashed>>

\* the longest string findBraces is called with
MaxBraces == 5

BraceChars == {"{", "}", "a"}

\* route.findBraces(s)
CallFindBraces(s) ==
    /\ call' = [op |-> "findBraces", s |-> s, out |-> findBraces(s)]
    /\ UNCHANGED <<routes, filters, mu, reg, req, crashed>>

\* http.Redirect for a target that begins with "/" (as RedirectStatus calls
\* it): the Location header it writes.  A target with a host ("//host...")
\* is written as it is; a path is cleaned, its trailing slash kept.
HttpRedirectLocation(url) ==
    LET rest     == Slice(url, 2, Len(url))
        host     == IF Index(rest, "/") = -1 THEN rest ELSE Slice(rest, 0, Index(rest, "/"))
        hasHost  == HasPrefix(url, <<"/", "/">>) /\ Len(host) > 0
        trailing == url[Len(url)] = "/"
        cleaned  == PathClean(url)
    IN IF hasHost THEN url
       ELSE IF trailing /\ cleaned[Len(cleaned)] # "/" THEN cleaned \o <<"/">>
       ELSE cleaned

\* RedirectStatus(context, path, status): the error returned (TRUE for an
\* error) and the writes made to the response
RedirectStatus(path, status) ==
    IF HasPrefix(path, <<"/">>) /\ ~Contains(path, ":")
    THEN [err |-> FALSE,
          writes |-> <<[location |-> HttpRedirectLocation(path), status |-> status]>>]
    ELSE [err |-> TRUE, writes |-> <<>>]

\* http.StatusFound
StatusFound == 302

\* Redirect(context, path)
RedirectTo(path) == RedirectStatus(path, StatusFound)

\* the longest redirect target tried
MaxTarget == 4

TargetChars == {"/", ":", "a"}

RECURSIVE StringsUpTo(_, _)
\* the strings over chars of length at most n
StringsUpTo(chars, n) ==
    IF n = 0 THEN {<<>>}
    ELSE LET shorter == StringsUpTo(chars, n - 1)
         IN shorter \cup {Append(s, c) : s \in shorter, c \in chars}

Targets == StringsUpTo(TargetChars, MaxTarget)

\* Redirect(context, path) is called
CallRedirect(path) ==
    /\ call' = [op |-> "redirect", path |-> path, status |-> StatusFound,
                out |-> RedirectTo(path)]
    /\ UNCHANGED <<routes, filters, mu, reg, req, crashed>>

\* RedirectStatus(context, path, status) is called
CallRedirectStatus(path, status) ==
    /\ call' = [op |-> "redirect", path |-> path, status |-> status,
                out |-> RedirectStatus(path, status)]
    /\ UNCHANGED <<routes, filters, mu, reg, req, crashed>>

NextCalls ==
    \/ \E p \in Patterns, h \in Handlers : CallNewRoute(p, h)
    \/ \E v \in {"Get", "Post", "Put", "Delete"} : CallVerb(v)
    \/ \E m \in MethodNames : CallMethod(m)
    \/ \E m \in MethodNames : CallAccept(m)
    \/ \E l \in MethodLists : CallMethods(l)
    \/ \E s \in Targets : CallRedirect(s)
    \/ \E s \in Targets : CallRedirectStatus(s, 301)

SpecCalls == Init /\ [][NextCalls]_vars

\* the longest raw path the canonical path is computed for
MaxRaw == 4

\* the canonical path ServeHTTP computes from request.URL.Path
CallCanonicalPath(raw) ==
    /\ call' = [op |-> "canonicalPath", raw |-> raw, out |-> CanonicalPath(raw)]
    /\ UNCHANGED <<routes, filters, mu, reg, req, crashed>>

\* shortPattern(p)
CallShortPattern(p) ==
    /\ call' = [op |-> "shortPattern", p |-> p, out |-> shortPattern(p)]
    /\ UNCHANGED <<routes, filters, mu, reg, req, crashed>>

\* a route is made from a pattern, asked whether it matches a path, and
\* parses the path it matches; findBraces is called on every string of
\* braces and letters up to MaxBraces, the canonical path is computed for
\* every raw path of separators, dots and letters up to MaxRaw, and the
\* short pattern for every pattern of separators, braces and letters up to
\* MaxRaw
NextMatch ==
    \/ \E p \in CallPatterns, h \in Handlers : CallNewRoute(p, h)
    \/ \E s \in CallPaths : CallMatchPath(s)
    \/ CallParse
    \/ \E s \in StringsUpTo(BraceChars, MaxBraces) : CallFindBraces(s)
    \/ \E s \in StringsUpTo({"/", ".", "a"}, MaxRaw) : CallCanonicalPath(s)
    \/ \E s \in StringsUpTo({"/", "{", "a"}, MaxRaw) : CallShortPattern(s)

SpecMatch == Init /\ [][NextMatch]_vars

(***************************************************************************)
(* Request parameters (params.go, ConcreteContext.Params): a Params map is *)
(* a function from keys to lists of values, an integer is its sign and its *)
(* decimal digits without leading zeros, so that the 64-bit range is kept  *)
(***************************************************************************)
\* Params.GetAll: p[key], the nil list for an absent key
ParamsGetAll(p, key) == IF key \in DOMAIN p THEN p[key] ELSE <<>>

\* Params.Get: the first value, or the empty string
ParamsGet(p, key) ==
    LET first(v) == IF Len(v) = 0 THEN <<>> ELSE v[1]
    IN first(ParamsGetAll(p, key))

\* an Add that replaces the values of the key
ParamsAdd_Replace(p, key, value) == MapSet(p, key, <<value>>)

\* Params.Add
ParamsAdd(p, key, value) == MapSet(p, key, Append(ParamsGetAll(p, key), value))

RECURSIVE ParamsAddEach(_, _, _, _)
\* for _, vv := range v { params.Add(k, vv) }, from the i-th value on
ParamsAddEach(params, k, v, i) ==
    IF i > Len(v) THEN params
    ELSE ParamsAddEach(ParamsAdd(params, k, v[i]), k, v, i + 1)

RECURSIVE ParamsAddMap(_, _, _)
\* for k, v := range m { ... }, over the keys not yet visited (the order in
\* which Go visits the keys does not change the list of any key)
ParamsAddMap(params, m, keys) ==
    IF keys = {} THEN params
    ELSE LET visit(k) == ParamsAddMap(ParamsAddEach(params, k, m[k], 1), m, keys \ {k})
         IN visit(CHOOSE k \in keys : TRUE)

\* ConcreteContext.Params: the form values, then the route's parameters
ContextParams(form, routeParams) ==
    LET withForm(params) ==
            ParamsAddMap(params, [k \in DOMAIN routeParams |-> <<routeParams[k]>>],
                         DOMAIN routeParams)
    IN withForm(ParamsAddMap(<<>>, form, DOMAIN form))

Zero == [neg |-> FALSE, mag |-> <<"0">>]

\* the largest magnitudes of an int64: 2^63 - 1, and 2^63 below zero
MaxInt64 == <<"9", "2", "2", "3", "3", "7", "2", "0", "3", "6", "8", "5", "4", "7", "7", "5", "8", "0", "7">>

MinInt64 == <<"9", "2", "2", "3", "3", "7", "2", "0", "3", "6", "8", "5", "4", "7", "7", "5", "8", "0", "8">>

\* a <= b for decimal magnitudes without leading zeros
MagLeq(a, b) ==
    \/ Len(a) < Len(b)
    \/ /\ Len(a) = Len(b)
       /\ \/ a = b
          \/ \E i \in 1..Len(a) :
                /\ DigitVal(a[i]) < DigitVal(b[i])
                /\ \A j \in 1..(i - 1) : a[j] = b[j]

\* strconv.ParseInt(s, 10, 64): an optional sign and decimal digits; an
\* error for any other text and for a value outside the 64-bit range
ParseInt(s) ==
    LET neg  == Len(s) > 0 /\ s[1] = "-"
        body == IF Len(s) > 0 /\ s[1] \in {"+", "-"} THEN Tail(s) ELSE s
        mag(nz) == IF nz = {} THEN <<"0">>
                   ELSE SubSeq(body, CHOOSE i \in nz : \A j \in nz : i <= j, Len(body))
        ranged(m) == IF MagLeq(m, IF neg THEN MinInt64 ELSE MaxInt64)
                     THEN [err |-> FALSE, val |-> [neg |-> neg /\ m # <<"0">>, mag |-> m]]
                     ELSE [err |-> TRUE, val |-> Zero]
    IN IF body = <<>> \/ \E i \in 1..Len(body) : ~IsDigit(body[i])
       THEN [err |-> TRUE, val |-> Zero]
       ELSE ranged(mag({i \in 1..Len(body) : body[i] # "0"}))

\* strings.LastIndexAny(v, "0123456789")
LastIndexDigit(v) ==
    IF \E k \in 1..Len(v) : IsDigit(v[k])
    THEN (CHOOSE k \in 1..Len(v) : IsDigit(v[k]) /\ \A j \in (k + 1)..Len(v) : ~IsDigit(v[j])) - 1
    ELSE -1

\* a GetInt that parses the value as it is
GetInt_NoTruncate(p, key) ==
    LET parsed(r) == IF r.err THEN Zero ELSE r.val
    IN parsed(ParseInt(ParamsGet(p, key)))

\* Params.GetInt
GetInt(p, key) ==
    LET parsed(r) == IF r.err THEN Zero ELSE r.val
        truncated(v) == Slice(v, 0, LastIndexDigit(v) + 1)
    IN parsed(ParseInt(truncated(ParamsGet(p, key))))

RECURSIVE GetUniqueIntsFrom(_, _, _)
\* the loop of GetUniqueInts over p.GetAll(key), from the i-th value on
GetUniqueIntsFrom(vs, i, ints) ==
    IF i > Len(vs) THEN ints
    ELSE IF vs[i] = <<>> THEN GetUniqueIntsFrom(vs, i + 1, ints)
    ELSE LET add(r) ==
                 LET vi == IF r.err THEN Zero ELSE r.val
                 IN IF \E k \in 1..Len(ints) : ints[k] = vi
                    THEN GetUniqueIntsFrom(vs, i + 1, ints)
                    ELSE GetUniqueIntsFrom(vs, i + 1, Append(ints, vi))
         IN add(ParseInt(vs[i]))

\* Params.GetUniqueInts
GetUniqueInts(p, key) == GetUniqueIntsFrom(ParamsGetAll(p, key), 1, <<>>)

\* the keys of the model: the name of the placeholder of PatParam, and one
\* that no route has
KeyId == <<"i", "d">>

KeyOther == <<"k">>

\* the longest value GetInt is called with, and the longest list of values
\* GetUniqueInts is called with
MaxValue == 3

MaxList == 3

\* request.Form as ConcreteContext.Params finds it
Forms ==
    {<<>>,
     KeyId :> <<<<"5">>>>,
     KeyId :> <<<<"5">>, <<"6">>>>,
     KeyOther :> <<<<"x">>>>,
     KeyId :> <<<<"5">>>> @@ KeyOther :> <<<<"x">>>>}

\* context.Params() for a request with this form that the route of the
\* pattern matched
CallParams(form, pattern, path) ==
    /\ ~NewRoute(pattern, "h1").route.nil
    /\ MatchPath(NewRoute(pattern, "h1").route, path)
    /\ call' = [op |-> "Params", form |-> form,
                routeParams |-> Parse(NewRoute(pattern, "h1").route, path).kv,
                out |-> ContextParams(form, Parse(NewRoute(pattern, "h1").route, path).kv)]
    /\ UNCHANGED <<routes, filters, mu, reg, req, crashed>>

\* params.GetInt(KeyId), for params whose values of the key are vs
CallGetInt(vs) ==
    /\ call' = [op |-> "GetInt", vs |-> vs, out |-> GetInt(KeyId :> vs, KeyId)]
    /\ UNCHANGED <<routes, filters, mu, reg, req, crashed>>

\* params.GetInt(KeyId) for params without the key
CallGetIntAbsent ==
    /\ call' = [op |-> "GetInt", vs |-> <<>>, out |-> GetInt(KeyOther :> <<<<"4">>>>, KeyId)]
    /\ UNCHANGED <<routes, filters, mu, reg, req, crashed>>

\* params.GetUniqueInts(KeyId)
CallGetUniqueInts(vs) ==
    /\ call' = [op |-> "GetUniqueInts", vs |-> vs, out |-> GetUniqueInts(KeyId :> vs, KeyId)]
    /\ UNCHANGED <<routes, filters, mu, reg, req, crashed>>

RECURSIVE ListsUpTo(_, _)
\* the lists of at most n values
ListsUpTo(values, n) ==
    IF n = 0 THEN {<<>>}
    ELSE LET shorter == ListsUpTo(values, n - 1)
         IN shorter \cup {Append(l, v) : l \in shorter, v \in values}

\* the values GetInt reads: short strings of digits, a letter and a sign,
\* and the ends of the 64-bit range with and without a letter after them
IntValues ==
    StringsUpTo({"4", "0", "a", "-"}, MaxValue)
    \cup {MaxInt64, MinInt64, MaxInt64 \o <<"a">>, MinInt64 \o <<"a">>, <<"-">> \o MinInt64}

NextParams ==
    \/ \E f \in Forms, p \in {PatLiteral, PatParam}, s \in {<<"/", "a">>, <<"/", "u", "/", "7">>} :
            CallParams(f, p, s)
    \/ \E v \in IntValues : CallGetInt(<<v>>)
    \/ \E v \in {<<"4", "a">>, <<>>, <<"a">>} : CallGetInt(<<v, <<"7">>>>)
    \/ CallGetIntAbsent
    \/ \E vs \in ListsUpTo({<<"1">>, <<"0">>, <<"2">>, <<>>, <<"a">>, <<"0", "1">>}, MaxList) :
            CallGetUniqueInts(vs)

SpecParams == Init /\ [][NextParams]_vars

(***************************************************************************)
(* A parameter container under its own operations (params.go): one         *)
(* container, made empty, and one call at a time on it.  The call record   *)
(* holds the container, what each key was given since its last Set or      *)
(* Remove, and what GetAll and Get return for each key after the call.     *)
(***************************************************************************)
\* the most values a key is given, and the longest string Flatten builds
MaxValues == 2

MaxJoined == 3

ContainerKeys == {KeyId, KeyOther}

ContainerValues == {<<>>, <<"a">>}

ContainerInts == {[neg |-> TRUE, mag |-> <<"7">>]}

\* fmt.Sprintf("%d", value)
FormatInt(i) == IF i.neg THEN <<"-">> \o i.mag ELSE i.mag

\* (a Set that keeps the values the key has)
ParamsSet_Append(p, key, value) == MapSet(p, key, Append(ParamsGetAll(p, key), value))

\* Params.Set
ParamsSet(p, key, value) == MapSet(p, key, <<value>>)

\* Params.SetInt
ParamsSetInt(p, key, value) == MapSet(p, key, <<FormatInt(value)>>)

\* (a Remove that leaves the key with an empty list)
ParamsRemove_KeepKey(p, key) == MapSet(p, key, <<>>)

\* Params.Remove: delete(p, key)
ParamsRemove(p, key) ==
    IF DOMAIN p \subseteq {key} THEN <<>> ELSE [y \in (DOMAIN p) \ {key} |-> p[y]]

RECURSIVE FlattenFrom(_, _, _)
\* the loop of Flatten over p[k], from the i-th value on
FlattenFrom(vs, i, flat) ==
    IF i > Len(vs) THEN flat
    ELSE FlattenFrom(vs, i + 1, IF i > 1 THEN flat \o <<",">> \o vs[i] ELSE vs[i])

\* (a Flatten that returns the string and leaves the container as it was)
ParamsFlatten_NoStore(p, k) ==
    [p |-> p, out |-> FlattenFrom(ParamsGetAll(p, k), 1, <<>>)]

\* Params.Flatten: the container after the call and the string returned
ParamsFlatten(p, k) ==
    LET stored(flat) == [p |-> MapSet(p, k, <<flat>>), out |-> flat]
    IN stored(FlattenFrom(ParamsGetAll(p, k), 1, <<>>))

\* Params.Map: the flat map, or the panic of v[0] on an empty list
ParamsMap(p) ==
    IF \E k \in DOMAIN p : Len(p[k]) = 0 THEN [panic |-> TRUE, flat |-> <<>>]
    ELSE [panic |-> FALSE, flat |-> [k \in DOMAIN p |-> p[k][1]]]

\* GetAll and Get of every key
Reads(p) == [k \in ContainerKeys |-> [all |-> ParamsGetAll(p, k), first |-> ParamsGet(p, k)]]

\* the call record: the call made last (did, key), the container before
\* and after it (before, p), what the call returned (out), what each key
\* was given since its last Set or Remove (given), whether only Set, Add
\* and Remove were called so far (plain), and the reads after the call
Container(did, key, before, p, out, given, plain) ==
    [op |-> "container", did |-> did, key |-> key, before |-> before, p |-> p,
     out |-> out, given |-> given, plain |-> plain, got |-> Reads(p)]

\* Params{}
CallMake ==
    /\ call' = Container("make", <<>>, <<>>, <<>>, <<>>,
                         [k \in ContainerKeys |-> <<>>], TRUE)
    /\ UNCHANGED <<routes, filters, mu, reg, req, crashed>>

\* p.Set(key, value)
CallSet(key, value) ==
    /\ call.op = "container"
    /\ call' = Container("Set", key, call.p, ParamsSet(call.p, key, value), <<>>,
                         [call.given EXCEPT ![key] = <<value>>], call.plain)
    /\ UNCHANGED <<routes, filters, mu, reg, req, crashed>>

\* p.SetInt(key, value)
CallSetInt(key, value) ==
    /\ call.op = "container"
    /\ call' = Container("SetInt", key, call.p, ParamsSetInt(call.p, key, value), <<>>,
                         [call.given EXCEPT ![key] = <<FormatInt(value)>>], FALSE)
    /\ UNCHANGED <<routes, filters, mu, reg, req, crashed>>

\* p.Add(key, value)
CallAdd(key, value) ==
    /\ call.op = "container"
    /\ Len(ParamsGetAll(call.p, key)) < MaxValues
    /\ call' = Container("Add", key, call.p, ParamsAdd(call.p, key, value), <<>>,
                         [call.given EXCEPT ![key] = Append(@, value)], call.plain)
    /\ UNCHANGED <<routes, filters, mu, reg, req, crashed>>

\* p.Remove(key)
CallRemove(key) ==
    /\ call.op = "container"
    /\ call' = Container("Remove", key, call.p, ParamsRemove(call.p, key), <<>>,
                         [call.given EXCEPT ![key] = <<>>], call.plain)
    /\ UNCHANGED <<routes, filters, mu, reg, req, crashed>>

\* p.Flatten(key)
CallFlatten(key) ==
    /\ call.op = "container"
    /\ Len(Join(ParamsGetAll(call.p, key), <<",">>)) <= MaxJoined
    /\ LET flattened(f) ==
               call' = Container("Flatten", key, call.p, f.p, f.out,
                                 [call.given EXCEPT ![key] = <<f.out>>], FALSE)
       IN flattened(ParamsFlatten(call.p, key))
    /\ UNCHANGED <<routes, filters, mu, reg, req, crashed>>

\* p.Map()
CallMap ==
    /\ call.op = "container"
    /\ call.did # "Map"
    /\ call' = [call EXCEPT !.did = "Map", !.key = <<>>, !.before = call.p,
                            !.out = ParamsMap(call.p)]
    /\ UNCHANGED <<routes, filters, mu, reg, req, crashed>>

NextContainer ==
    \/ CallMake
    \/ \E k \in ContainerKeys, v \in ContainerValues : CallSet(k, v)
    \/ \E k \in ContainerKeys, i \in ContainerInts : CallSetInt(k, i)
    \/ \E k \in ContainerKeys, v \in ContainerValues : CallAdd(k, v)
    \/ \E k \in ContainerKeys : CallRemove(k)
    \/ \E k \in ContainerKeys : CallFlatten(k)
    \/ CallMap

SpecContainer == Init /\ [][NextContainer]_vars

(***************************************************************************)
(* Properties of lookup and dispatch                                       *)
(***************************************************************************)
InFlight(q) == req[q].pc \in {"lookup", "found", "filters", "error"}

\* route r accepts the request: both conditions of lookup
Accepts(r, method, path) == ~r.nil /\ MatchMethod(r, method) /\ MatchPath(r, path)

\* the first route of the table, in registration order, that accepts the
\* request; 0 when no registered route does
FirstAccepting(rs, method, path) ==
    IF \E i \in 1..Len(rs) : Accepts(rs[i], method, path)
    THEN CHOOSE i \in 1..Len(rs) :
            /\ Accepts(rs[i], method, path)
            /\ \A j \in 1..(i - 1) : ~Accepts(rs[j], method, path)
    ELSE 0

\* C1: every lookup returns the first route, in registration order, whose
\* methods contain the request's method ("" counting as GET) and whose path
\* matcher accepts the canonical path, and returns no route only when no
\* registered route satisfies both.
C1_LookupReturnsFirstMatch ==
    [][\A q \in DOMAIN req :
          (req[q].pc = "lookup" /\ req'[q].pc # "lookup")
          => /\ req'[q].pc = "found"
             /\ req'[q].route = FirstAccepting(routes, req[q].method, req[q].path)]_vars

\* C2: registering a malformed pattern never crashes: the registration
\* returns and no later lookup or dispatch ends in a panic.
C2_MalformedPatternNeverCrashes ==
    /\ ~crashed
    /\ \A q \in DOMAIN req : req[q].pc # "panicked"

\* the routes of the table as the list holds them: the route objects,
\* whatever the fields the fluent calls and Parse change
RouteList(rs) ==
    [i \in 1..Len(rs) |->
        IF rs[i].nil THEN rs[i] ELSE [rs[i] EXCEPT !.methods = <<>>, !.Params = NilParams]]

\* a step changes the route list or the filter list
ListsChange ==
    \/ filters' # filters
    \/ (routes' # routes /\ RouteList(routes') # RouteList(routes))

\* C6: an append to the route or filter list happens only under the write
\* lock, with no request reading the lists, and a request in flight sees
\* the same lists from its lookup to its end.
C6_RegistrationExclusive ==
    [][/\ ListsChange
          => /\ mu.writer # NIL
             /\ mu.readers = 0
             /\ \A q \in DOMAIN req : ~InFlight(q)
       /\ \A q \in DOMAIN req :
             (InFlight(q) /\ req'[q].pc # "idle") => ~ListsChange]_vars

\* a registration waits for the lock while a request iterates the filters
C6_Witness ==
    \E g \in DOMAIN reg, q \in DOMAIN req :
        /\ reg[g] = "waiting"
        /\ req[q].pc = "filters"
        /\ req[q].fi = 1
        /\ Len(filters) = 2

\* a route registered with AddRedirect
IsRedirectRoute(r) == ~r.nil /\ r.Handler = NIL /\ r.RedirectPath # <<>>

Dispatched(q) == req[q].pc \in {"filters", "error", "done"}

RedirectOnly(q) ==
    /\ req[q].pc = "done"
    /\ Len(req[q].log) = 1
    /\ IsEvent(req[q].log[1], "redirect",
               <<routes[req[q].route].RedirectPath, routes[req[q].route].RedirectStatus>>, NIL)

\* C7 as stated: whenever lookup selects a route registered with
\* AddRedirect, with any status code, the request is answered by the
\* redirect alone: no filter, handler, fallback or error handler runs.
C7_RedirectAnyStatus ==
    \A q \in DOMAIN req :
        (Dispatched(q) /\ req[q].route # 0 /\ IsRedirectRoute(routes[req[q].route]))
        => RedirectOnly(q)

\* C7 amended: whenever lookup selects a route whose redirect status is
\* not zero, the request is answered by the redirect to the route's target
\* alone: no filter, handler, fallback or error handler runs.
C7_RedirectNonZeroStatus ==
    \A q \in DOMAIN req :
        (Dispatched(q) /\ req[q].route # 0 /\ routes[req[q].route].RedirectStatus # 0)
        => RedirectOnly(q)

\* a request answered by a redirect route while a filter is registered
C7_Witness ==
    \E q \in DOMAIN req :
        /\ req[q].pc = "done"
        /\ req[q].route # 0
        /\ IsRedirectRoute(routes[req[q].route])
        /\ routes[req[q].route].RedirectStatus = 301
        /\ Len(req[q].log) = 1
        /\ Len(filters) > 0

\* C8: once a filter has returned an error, nothing runs for the request
\* but the error handler, with exactly that error: no later filter, no
\* handler, no fallback.
C8_FilterErrorStops ==
    \A q \in DOMAIN req : \A k \in 1..Len(req[q].log) :
        (req[q].log[k].e = "filter" /\ req[q].log[k].r # NIL)
        => \/ /\ k = Len(req[q].log)
              /\ req[q].pc = "error"
              /\ req[q].err = req[q].log[k].r
           \/ /\ k + 1 = Len(req[q].log)
              /\ req[q].pc = "done"
              /\ IsEvent(req[q].log[k + 1], "error", NIL, req[q].log[k].r)

\* the first of two filters failed: the request is over with the error
\* handler called, the second filter and the route's handler never run
C8_Witness ==
    \E q \in DOMAIN req :
        /\ req[q].pc = "done"
        /\ Len(filters) = 2
        /\ req[q].route # 0
        /\ routes[req[q].route].Handler # NIL
        /\ Len(req[q].log) = 2
        /\ req[q].log[1].e = "filter"
        /\ req[q].log[1].r = "e2"

\* C9: the filters run one at a time in registration order, each at most
\* once, and the handler or the fallback starts only after every
\* registered filter has run and succeeded.
C9_FiltersInOrderBeforeHandler ==
    /\ [](\A q \in DOMAIN req : \A k \in 1..Len(req[q].log) :
            req[q].log[k].e = "filter" => req[q].log[k].a[1] = k)
    /\ [][\A q \in DOMAIN req :
            (Len(req'[q].log) = Len(req[q].log) + 1)
            => LET ev == req'[q].log[Len(req'[q].log)] IN
               /\ ev.e = "filter" => ev.a[2] = filters[ev.a[1]]
               /\ ev.e \in {"handler", "file"}
                  => /\ Len(req[q].log) = Len(filters)
                     /\ \A k \in 1..Len(req[q].log) :
                           /\ req[q].log[k].e = "filter"
                           /\ req[q].log[k].a = <<k, filters[k]>>
                           /\ req[q].log[k].r = NIL]_vars

\* both filters have run, in order, and then the fallback, for a request
\* no route matched
C9_Witness ==
    \E q \in DOMAIN req :
        /\ req[q].route = 0
        /\ Len(req[q].log) = 3
        /\ IsEvent(req[q].log[1], "filter", <<1, "f2">>, NIL)
        /\ IsEvent(req[q].log[2], "filter", <<2, "f1">>, NIL)
        /\ req[q].log[3].e = "file"

AllFiltersSucceeded(q) ==
    \A k \in 1..Len(req[q].log) : req[q].log[k].e = "filter" => req[q].log[k].r = NIL

\* C10 as stated: when lookup returns no route and every filter succeeds,
\* the fallback handles the request and the error handler is never invoked.
C10_FallbackNeverErrorHandler ==
    \A q \in DOMAIN req :
        (req[q].pc = "done" /\ req[q].route = 0 /\ AllFiltersSucceeded(q))
        => /\ \E k \in 1..Len(req[q].log) : req[q].log[k].e = "file"
           /\ \A k \in 1..Len(req[q].log) : req[q].log[k].e # "error"

\* C10 amended: when lookup returns no route and every filter succeeds,
\* the fallback file handler handles the request (never a route handler),
\* and the error handler is invoked exactly when the fallback itself
\* returns an error (not found, not authorized), with that error.
C10_FallbackThenItsError ==
    \A q \in DOMAIN req :
        (req[q].pc = "done" /\ req[q].route = 0 /\ AllFiltersSucceeded(q))
        => /\ \A k \in 1..Len(req[q].log) : req[q].log[k].e # "handler"
           /\ \E k \in 1..Len(req[q].log) :
                /\ req[q].log[k].e = "file"
                /\ IF req[q].log[k].r = NIL
                   THEN k = Len(req[q].log)
                   ELSE /\ k + 1 = Len(req[q].log)
                        /\ IsEvent(req[q].log[k + 1], "error", NIL, req[q].log[k].r)

\* no route matched, the filter succeeded, the file was not found and the
\* error handler rendered that
C10_Witness ==
    \E q \in DOMAIN req :
        /\ req[q].pc = "done"
        /\ req[q].route = 0
        /\ Len(req[q].log) = 3
        /\ req[q].log[1].e = "filter"
        /\ IsEvent(req[q].log[2], "file", req[q].path, "NotFound")
        /\ req[q].log[3].e = "error"

(***************************************************************************)
(* Properties of the route parameters (checked under SpecV1)               *)
(***************************************************************************)

\* C3: the route parameters a request obtains from Params() are exactly
\* those extracted from its own canonical path, whatever other requests of
\* the same route do meanwhile.
C3_ParamsFromOwnPath ==
    \A q \in DOMAIN req :
        ~req[q].got.nil
            => req[q].got.kv = Parse(routes[req[q].route], req[q].path).kv

\* C4: Parse leaves every field of the shared Route unchanged, its
\* parameter slot included.
C4_ParseLeavesRouteUnchanged ==
    [][\A q \in DOMAIN req :
          (req[q].pc = "v1parse" /\ req'[q].pc = "v1read") => routes' = routes]_vars

\* C5: when a request completes, whatever its outcome, the parameter slot
\* of every route in the table is clear.
C5_SlotsClearAtCompletion ==
    [][\A q \in DOMAIN req :
          (req[q].pc = "v1reset" /\ req'[q].pc \in {"done", "panicked"})
              => \A i \in 1..Len(routes') :
                     ~routes'[i].nil => routes'[i].Params.nil]_vars

(***************************************************************************)
(* Properties of the handler and the fallback (checked under Spec)         *)
(***************************************************************************)
HasEvent(q, e) == \E k \in 1..Len(req[q].log) : req[q].log[k].e = e

\* the request went through the filter loop and every filter succeeded (a
\* request answered by a redirect never reaches the filters)
FiltersPassed(q) == AllFiltersSucceeded(q) /\ ~HasEvent(q, "redirect")

\* C11: no request runs both the route's handler and the fallback; the
\* handler runs exactly when all filters succeeded and the route has a
\* handler, the fallback exactly when all filters succeeded and there is
\* no such handler.
C11_HandlerXorFallback ==
    \A q \in DOMAIN req :
        /\ ~(HasEvent(q, "handler") /\ HasEvent(q, "file"))
        /\ HasEvent(q, "handler") => (FiltersPassed(q) /\ HandlerOf(q) # NIL)
        /\ HasEvent(q, "file") => (FiltersPassed(q) /\ HandlerOf(q) = NIL)
        /\ (req[q].pc = "done" /\ FiltersPassed(q))
           => IF HandlerOf(q) # NIL THEN HasEvent(q, "handler") ELSE HasEvent(q, "file")

\* after two filters that succeeded the handler of the route has run, and
\* the request is over without the fallback
C11_Witness ==
    \E q \in DOMAIN req :
        /\ req[q].pc = "done"
        /\ Len(req[q].log) = 3
        /\ req[q].log[1].e = "filter" /\ req[q].log[2].e = "filter"
        /\ IsEvent(req[q].log[3], "handler", HandlerOf(q), NIL)

\* C12: once the handler has returned an error, nothing runs for the
\* request but the error handler, once, with exactly that error.
C12_HandlerErrorToErrorHandler ==
    \A q \in DOMAIN req : \A k \in 1..Len(req[q].log) :
        (req[q].log[k].e = "handler" /\ req[q].log[k].r # NIL)
        => \/ /\ k = Len(req[q].log)
              /\ req[q].pc = "error"
              /\ req[q].err = req[q].log[k].r
           \/ /\ k + 1 = Len(req[q].log)
              /\ req[q].pc = "done"
              /\ IsEvent(req[q].log[k + 1], "error", NIL, req[q].log[k].r)

\* the handler returned e2 after a filter that succeeded, and the error
\* handler was called with e2
C12_Witness ==
    \E q \in DOMAIN req :
        /\ req[q].pc = "done"
        /\ Len(req[q].log) = 3
        /\ req[q].log[1].e = "filter"
        /\ req[q].log[2].e = "handler"
        /\ req[q].log[2].r = "e2"
        /\ IsEvent(req[q].log[3], "error", NIL, "e2")

(***************************************************************************)
(* Properties of the functions of the package (checked under SpecCalls)    *)
(***************************************************************************)

\* C13: every route has a non-empty set of accepted methods: a new route
\* accepts GET and no sequence of Get, Post, Put, Delete, Method, Accept
\* and Methods, with any argument, leaves the set empty.
C13_MethodsNeverEmpty ==
    (call.op = "route" /\ ~call.route.nil) => Len(call.route.methods) > 0

\* an internal path: it begins with a single separator and contains no
\* scheme delimiter
IsInternalPath(s) ==
    /\ HasPrefix(s, <<"/">>)
    /\ ~HasPrefix(s, <<"/", "/">>)
    /\ ~Contains(s, ":")

\* C14: Redirect and RedirectStatus on a target that is not an internal
\* path return an error and write nothing; on an internal path they write
\* one redirect to that path, with the status given (302 for Redirect), and
\* return no error; the response is written exactly when no error is
\* returned.
C14_RedirectInternalOnly ==
    call.op = "redirect"
    => /\ call.out.err <=> call.out.writes = <<>>
       /\ ~IsInternalPath(call.path) => (call.out.err /\ call.out.writes = <<>>)
       /\ IsInternalPath(call.path)
          => /\ ~call.out.err
             /\ Len(call.out.writes) = 1
             /\ call.out.writes[1].status = call.status
             /\ PathClean(call.out.writes[1].location) = PathClean(call.path)

\* C15: a target is honoured only if it begins with a single separator and
\* contains no scheme delimiter: a target that begins with two separators
\* or contains ":" is rejected with an error and never followed.
C15_RedirectRejectsExternal ==
    (call.op = "redirect"
        /\ (HasPrefix(call.path, <<"/", "/">>) \/ Contains(call.path, ":")))
    => (call.out.err /\ call.out.writes = <<>>)


(***************************************************************************)
(* Properties of pattern compilation and matching (checked under SpecMatch)*)
(***************************************************************************)
\* the top-level placeholders of a pattern, left to right: the name and
\* the fragment of each, as compileRegexp splits the text between its braces
Placeholders(pattern) ==
    LET spans(idxs) == [i \in 1..(Len(idxs) \div 2) |->
                          SplitN2(Slice(pattern, idxs[2 * i - 1] + 1, idxs[2 * i] - 1), ":")]
    IN spans(findBraces(pattern).idxs)

RECURSIVE GroupsBefore(_, _)
\* the capture groups of the compiled expression that open before the
\* parentheses compileRegexp puts around the i-th fragment: for each
\* earlier fragment its parentheses and the groups of the fragment itself
GroupsBefore(phs, i) ==
    IF i <= 1 THEN 0
    ELSE GroupsBefore(phs, i - 1) + 1 + RegexpCompile(phs[i - 1][2]).ngroups

\* C16: a compiled route of a pattern with N top-level placeholders has the
\* N names in declaration order and N capture groups, and after parsing a
\* path it matches, its i-th name holds the text the i-th fragment matched
C16_NamesAlignWithGroups ==
    (call.op = "route" /\ ~call.route.nil /\ call.route.Regexp.ok) =>
        LET aligned(r, phs) ==
                /\ Len(r.ParamNames) = Len(phs)
                /\ \A i \in 1..Len(phs) : r.ParamNames[i] = phs[i][1]
                /\ r.Regexp.ngroups = Len(phs)
                /\ call.did = "Parse" =>
                       \A i \in 1..Len(phs) :
                           /\ r.ParamNames[i] \in DOMAIN r.Params.kv
                           /\ r.Params.kv[r.ParamNames[i]]
                                  = FindStringSubmatch(r.Regexp, call.path)
                                        [1 + GroupsBefore(phs, i) + 1]
        IN aligned(call.route, Placeholders(call.route.Pattern))

\* the brace depth after the first k characters of s
Depth(s, k) ==
    Cardinality({j \in 1..k : s[j] = "{"}) - Cardinality({j \in 1..k : s[j] = "}"})

\* the top-level spans of s, as <<index of the opening brace, index after
\* the closing brace>>: the brace opens at depth zero and the span ends at
\* the first return to depth zero
TopSpans(s) ==
    {<<a, b>> \in (0..Len(s)) \X (0..Len(s)) :
        /\ a < b
        /\ s[a + 1] = "{"
        /\ Depth(s, a) = 0
        /\ Depth(s, b) = 0
        /\ \A k \in (a + 1)..(b - 1) : Depth(s, k) > 0}

\* C17: findBraces returns an error exactly when the depth goes negative or
\* is not zero at the end; otherwise it returns the top-level spans, left
\* to right and non-overlapping, each ending where the depth returns to
\* zero, and no brace inside a span starts or ends a span
C17_BraceScan ==
    call.op = "findBraces" =>
        LET spans(idxs, n) ==
                /\ Len(idxs) = 2 * n
                /\ {<<idxs[2 * i - 1], idxs[2 * i]>> : i \in 1..n} = TopSpans(call.s)
                /\ \A i \in 1..n : idxs[2 * i - 1] < idxs[2 * i]
                /\ \A i \in 1..(n - 1) : idxs[2 * i] <= idxs[2 * i + 1]
        IN /\ call.out.err <=> \/ \E k \in 1..Len(call.s) : Depth(call.s, k) < 0
                               \/ Depth(call.s, Len(call.s)) # 0
           /\ ~call.out.err => spans(call.out.idxs, Len(call.out.idxs) \div 2)

\* findBraces has scanned a balanced string with a brace inside a span
C17_Witness ==
    /\ call.op = "findBraces"
    /\ ~call.out.err
    /\ Len(call.out.idxs) = 2
    /\ \E k \in 1..Len(call.s) :
          /\ call.s[k] = "{"
          /\ call.out.idxs[1] < k - 1
          /\ k < call.out.idxs[2]

\* C18: a route without a compiled expression matches a path only when the
\* pattern and the path are the same string
C18_LiteralMatchesByEquality ==
    (/\ call.op = "route"
     /\ call.did = "MatchPath"
     /\ ~call.route.Regexp.ok
     /\ call.matched) => call.route.Pattern = call.path

\* a literal route was asked about a path that extends its pattern, and it
\* did not match
C18_Witness ==
    /\ call.op = "route"
    /\ call.did = "MatchPath"
    /\ ~call.route.Regexp.ok
    /\ HasPrefix(call.path, call.route.Pattern)
    /\ call.path # call.route.Pattern
    /\ ~call.matched

\* the compiled expression of r accepts the whole of s: one of the ways it
\* matches from the start of s ends at the end of s
FullyAccepts(r, s) ==
    LET ends(rs) == \E i \in 1..Len(rs) : rs[i].pos = Len(s) + 1
    IN ends(ReM(r.Regexp.node, s, 1, NoCaps(r.Regexp)))

\* the path begins with text the compiled expression of r accepts
BeginsAccepted(r, path) ==
    \E k \in 0..Len(path) : FullyAccepts(r, SubSeq(path, 1, k))

\* C19 as stated: a compiled route matches exactly the paths that begin
\* with text its pattern accepts, whatever follows that text
C19_StartAnchoredOnly ==
    (/\ call.op = "route"
     /\ call.did = "MatchPath"
     /\ call.route.Regexp.ok) =>
        (call.matched <=> BeginsAccepted(call.route, call.path))

\* C19: a compiled route whose fragments have no end anchor matches exactly
\* the paths outside the reserved prefix that begin with text its pattern
\* accepts, whatever follows that text
C19_StartAnchoredOutsideAssets ==
    (/\ call.op = "route"
     /\ call.did = "MatchPath"
     /\ call.route.Regexp.ok
     /\ ~Contains(call.route.Pattern, "$")
     /\ ~HasPrefix(call.path, AssetsPrefix)) =>
        (call.matched <=> BeginsAccepted(call.route, call.path))

\* a compiled route matched a path that goes on after the text its pattern
\* accepts
C19_Witness ==
    /\ call.op = "route"
    /\ call.did = "MatchPath"
    /\ call.route.Regexp.ok
    /\ ~Contains(call.route.Pattern, "$")
    /\ ~HasPrefix(call.path, AssetsPrefix)
    /\ call.matched
    /\ ~FullyAccepts(call.route, call.path)
    /\ \E k \in 0..(Len(call.path) - 1) : FullyAccepts(call.route, SubSeq(call.path, 1, k))

(***************************************************************************)
(* Properties of the reserved prefix (checked under SpecAssets)            *)
(***************************************************************************)
\* C20: for a request whose canonical path begins with /assets no route of
\* the table accepts the path, lookup has returned no route, neither a
\* redirect nor a handler answers it, and once its filters have succeeded
\* it is the fallback file handler that is called
C20_AssetsGoToFileServing ==
    \A q \in DOMAIN req :
        (HasPrefix(req[q].path, AssetsPrefix) /\ req[q].pc \notin {"idle", "lookup"}) =>
            /\ \A i \in 1..Len(routes) : ~MatchPath(routes[i], req[q].path)
            /\ req[q].route = 0
            /\ ~HasEvent(q, "redirect")
            /\ ~HasEvent(q, "handler")
            /\ (req[q].pc = "done" /\ FiltersPassed(q)) => HasEvent(q, "file")

\* a request for /assets/a has been handed to the fallback while the table
\* holds a route and a redirect route with patterns under /assets
C20_Witness ==
    \E q \in DOMAIN req :
        /\ req[q].path = <<"/", "a", "s", "s", "e", "t", "s", "/", "a">>
        /\ HasEvent(q, "file")
        /\ \E i, j \in 1..Len(routes) :
              /\ HasPrefix(routes[i].Pattern, AssetsPrefix)
              /\ ~IsRedirectRoute(routes[i])
              /\ HasPrefix(routes[j].Pattern, AssetsPrefix)
              /\ IsRedirectRoute(routes[j])

(***************************************************************************)
(* Properties of the request parameters (checked under SpecParams)         *)
(***************************************************************************)
\* C21: in the merged parameters the values of a key are its form values
\* followed by the route's value, so for a key that has both, GetAll gives
\* the form values and then the route value, and Get the first form value
C21_FormBeforeRoute ==
    call.op = "Params" =>
        /\ \A k \in (DOMAIN call.form) \cup (DOMAIN call.routeParams) :
              ParamsGetAll(call.out, k) =
                  ParamsGetAll(call.form, k)
                  \o (IF k \in DOMAIN call.routeParams THEN <<call.routeParams[k]>> ELSE <<>>)
        /\ \A k \in (DOMAIN call.form) \cap (DOMAIN call.routeParams) :
              ParamsGet(call.out, k) = call.form[k][1]

\* the form has 5 and 6 for the key id and the route matched 7 for it
C21_Witness ==
    /\ call.op = "Params"
    /\ KeyId \in DOMAIN call.form
    /\ call.form[KeyId] = <<<<"5">>, <<"6">>>>
    /\ KeyId \in DOMAIN call.routeParams
    /\ ParamsGetAll(call.out, KeyId) = <<<<"5">>, <<"6">>, <<"7">>>>

\* C22: GetUniqueInts returns the distinct non-zero integers among the
\* values of the key, each once, in the order of their first occurrence
C22_UniqueNonZeroInts ==
    call.op = "GetUniqueInts" =>
        LET val(v) == IF ParseInt(v).err THEN Zero ELSE ParseInt(v).val
            first(x) == CHOOSE i \in 1..Len(call.vs) :
                            /\ val(call.vs[i]) = x
                            /\ \A j \in 1..(i - 1) : val(call.vs[j]) # x
            distinct(out) ==
                /\ \A a, b \in 1..Len(out) : a # b => out[a] # out[b]
                /\ \A a \in 1..Len(out) : out[a] # Zero
                /\ {out[a] : a \in 1..Len(out)}
                      = {val(call.vs[i]) : i \in 1..Len(call.vs)} \ {Zero}
                /\ \A a, b \in 1..Len(out) : a < b => first(out[a]) < first(out[b])
        IN distinct(call.out)

\* C23: GetInt returns the value of the leading digits of the first value
\* when only characters that are no digits follow them, and 0 when that
\* value is outside the 64-bit range, when the key is absent and when the
\* first value is empty or has no digit
C23_GetIntLeadingDigits ==
    call.op = "GetInt" =>
        LET leading(v, n) ==
                /\ (n >= 1 /\ \A i \in (n + 1)..Len(v) : ~IsDigit(v[i]))
                   => call.out = IF ParseInt(SubSeq(v, 1, n)).err THEN Zero
                                 ELSE ParseInt(SubSeq(v, 1, n)).val
                /\ (\A i \in 1..Len(v) : ~IsDigit(v[i])) => call.out = Zero
            digits(v) == leading(v, CHOOSE n \in 0..Len(v) :
                                        /\ \A i \in 1..n : IsDigit(v[i])
                                        /\ n = Len(v) \/ ~IsDigit(v[n + 1]))
        IN digits(IF call.vs = <<>> THEN <<>> ELSE call.vs[1])

\* GetInt has read 4 from a value that goes on with a letter
C23_Witness ==
    /\ call.op = "GetInt"
    /\ call.vs # <<>>
    /\ Len(call.vs[1]) >= 2
    /\ call.vs[1][1] = "4"
    /\ \A i \in 2..Len(call.vs[1]) : call.vs[1][i] = "a"
    /\ call.out = [neg |-> FALSE, mag |-> <<"4">>]

(***************************************************************************)
(* Properties of the canonical path (checked under SpecMatch)              *)
(***************************************************************************)
\* C24: the canonical path of every raw path begins with "/", and it is
\* exactly "/" for a raw path of which cleaning leaves no segment
C24_CanonicalPathRooted ==
    call.op = "canonicalPath" =>
        /\ HasPrefix(call.out, <<"/">>)
        /\ (\A seg \in {Split(call.raw, "/")[i] : i \in 1..Len(Split(call.raw, "/"))} :
                seg \in {<<>>, <<".">>})
           => call.out = <<"/">>

(***************************************************************************)
(* Properties of the data of a request (checked under SpecDataV1)          *)
(***************************************************************************)
\* C25: every Set of a request stores its value, and every Get of a request
\* returns the value of the latest Set of the key in the same request, and
\* nothing (nil) when this request has not set the key
C25_RequestDataIsOwn ==
    \A q \in DOMAIN req : \A i \in 1..Len(req[q].log) :
        LET log == req[q].log
            sets(k) == {j \in 1..(i - 1) : log[j].e = "set" /\ log[j].a[1] = k}
            latest(s) == CHOOSE j \in s : \A j2 \in s : j2 <= j
        IN /\ log[i].e = "set" => log[i].r = NIL
           /\ log[i].e = "get" =>
                 log[i].r = IF sets(log[i].a) = {} THEN NIL
                            ELSE log[latest(sets(log[i].a))].a[2]

(***************************************************************************)
(* Properties of parsing and compilation (checked under SpecMatch)         *)
(***************************************************************************)
RECURSIVE Substitute(_, _, _, _, _)
\* the literal skeleton of a pattern with the value of each placeholder's
\* name written in its place (i is Go's index into the brace indices)
Substitute(pattern, idxs, i, end, kv) ==
    IF i >= Len(idxs) THEN Slice(pattern, end, Len(pattern))
    ELSE Slice(pattern, end, idxs[i + 1])
         \o kv[SplitN2(Slice(pattern, idxs[i + 1] + 1, idxs[i + 2] - 1), ":")[1]]
         \o Substitute(pattern, idxs, i + 2, idxs[i + 2], kv)

\* C26: the parameters a compiled route parsed from a path it matches,
\* written back into the skeleton of its pattern, give a path the route
\* matches and parses to the same parameters
C26_ParseRoundTrip ==
    (call.op = "route" /\ call.did = "Parse" /\ call.route.Regexp.ok) =>
        LET back(r, path) == MatchPath(r, path) /\ Parse(r, path) = r.Params
        IN back(call.route,
                Substitute(call.route.Pattern, findBraces(call.route.Pattern).idxs, 0, 0,
                           call.route.Params.kv))

RECURSIVE SourceFrom(_, _, _, _)
\* the source of the expression of a pattern from its i-th placeholder on:
\* the quoted text before each placeholder, its fragment in parentheses,
\* and the quoted text after the last placeholder
SourceFrom(pattern, idxs, phs, i) ==
    LET from == IF i = 1 THEN 0 ELSE idxs[2 * (i - 1)]
    IN IF i > Len(phs) THEN QuoteMeta(Slice(pattern, from, Len(pattern)))
       ELSE QuoteMeta(Slice(pattern, from, idxs[2 * i - 1]))
            \o <<"(">> \o phs[i][2] \o <<")">>
            \o SourceFrom(pattern, idxs, phs, i + 1)

\* C27: NewRoute returns an error for a pattern with a placeholder that has
\* no ":", wherever the placeholder is; otherwise the name of a placeholder
\* is its text before the first ":" and the whole of the rest, further
\* colons included, is its fragment
C27_ColonSplitsNameAndFragment ==
    (call.op = "route" /\ ~findBraces(call.pattern).err) =>
        LET split(phs) ==
                IF \E i \in 1..Len(phs) : Len(phs[i]) # 2
                THEN call.err /\ call.route.nil
                ELSE ~call.err =>
                        /\ Len(call.route.ParamNames) = Len(phs)
                        /\ \A i \in 1..Len(phs) :
                              /\ call.route.ParamNames[i] = phs[i][1]
                              /\ ~Contains(phs[i][1], ":")
                        /\ Len(phs) > 0 =>
                              call.route.Regexp =
                                  RegexpCompile(<<"^">> \o SourceFrom(call.pattern,
                                                    findBraces(call.pattern).idxs, phs, 1))
        IN split(Placeholders(call.pattern))

\* the route of /{x:a:b} has the name x and has matched /a:b
C27_Witness ==
    /\ call.op = "route"
    /\ call.pattern = <<"/", "{", "x", ":", "a", ":", "b", "}">>
    /\ ~call.err
    /\ call.route.ParamNames = <<<<"x">>>>
    /\ call.did = "MatchPath"
    /\ call.path = <<"/", "a", ":", "b">>
    /\ call.matched

\* NewRoute has returned an error for a pattern whose second placeholder
\* has no ":"
C27_WitnessError ==
    /\ call.op = "route"
    /\ call.pattern = <<"/", "{", "x", ":", "a", "}", "/", "{", "y", "}">>
    /\ call.err

\* C28: no deadlock is reachable between requests and registrations: there
\* is no state where a registration waits in Lock for the readers to leave
\* while every request that holds the read lock waits in findRoute for a
\* read lock that the waiting writer holds back
C28_NoLockDeadlock ==
    ~\E g \in DOMAIN reg :
        /\ reg[g] = "waiting"
        /\ mu.pending = g
        /\ mu.readers > 0
        /\ ~CanRLock
        /\ \A q \in DOMAIN req : InFlight(q) => req[q].pc = "lookup"

\* C29: a route made POST-only with Add(...).Post() is never the route a
\* lookup has returned for a GET request: the route of every request past
\* its lookup accepts the request's method
C29_PostRouteNeverServesGet ==
    \A q \in DOMAIN req :
        (req[q].pc \in {"found", "filters"} /\ req[q].route # 0)
        => MatchMethod(routes[req[q].route], req[q].method)

\* C30: the route list and the filter list only grow at their end: every
\* step leaves each list as it was or appends one entry after the entries
\* it held, which stay the same objects at the same positions
C30_ListsAppendOnly ==
    [][/\ \/ RouteList(routes') = RouteList(routes)
          \/ /\ Len(routes') = Len(routes) + 1
             /\ SubSeq(RouteList(routes'), 1, Len(routes)) = RouteList(routes)
       /\ \/ filters' = filters
          \/ /\ Len(filters') = Len(filters) + 1
             /\ SubSeq(filters', 1, Len(filters)) = filters]_vars

\* a request has run to its end over a redirect registered first and a
\* handler route registered second, since made POST-only, with two filters
C30_Witness ==
    /\ Len(routes) = 2
    /\ IsRedirectRoute(routes[1])
    /\ ~routes[2].nil
    /\ routes[2].Handler # NIL
    /\ routes[2].methods = <<"POST">>
    /\ Len(filters) = 2
    /\ \E q \in DOMAIN req : req[q].pc = "done" /\ Len(req[q].log) > 0

\* how many times a request ran the step e
CountEvents(q, e) == Cardinality({k \in 1..Len(req[q].log) : req[q].log[k].e = e})

\* C31: in every request the error handler runs at most once, right after
\* the filter, handler or fallback that returned an error and with that
\* error, and a finished request in which one of them returned an error has
\* run it; the handler and the fallback each run at most once
C31_ErrorHandlerOnceOnError ==
    \A q \in DOMAIN req :
        LET log == req[q].log
            failed(k) == log[k].e \in {"filter", "handler", "file"} /\ log[k].r # NIL
        IN /\ CountEvents(q, "error") <= 1
           /\ CountEvents(q, "handler") <= 1
           /\ CountEvents(q, "file") <= 1
           /\ \A k \in 1..Len(log) :
                 log[k].e = "error" => (k > 1 /\ failed(k - 1) /\ log[k].r = log[k - 1].r)
           /\ req[q].pc = "done" =>
                 ((\E k \in 1..Len(log) : failed(k)) => CountEvents(q, "error") = 1)

\* a request is over whose two filters succeeded, whose fallback returned
\* an error and whose error handler ran once, with that error
C31_Witness ==
    \E q \in DOMAIN req :
        /\ req[q].pc = "done"
        /\ Len(req[q].log) = 4
        /\ req[q].log[2].e = "filter"
        /\ req[q].log[2].r = NIL
        /\ req[q].log[3].e = "file"
        /\ req[q].log[3].r = "NotFound"
        /\ IsEvent(req[q].log[4], "error", NIL, "NotFound")

\* the method a method string stands for: "" counts as GET
MethodOf(m) == IF m = "" THEN "GET" ELSE m

\* C32: after Accept(m) the route accepts m and every method it accepted
\* before, and a second Accept(m) changes nothing; after Method(m) the
\* route accepts m and no other method; for every m, "" included
C32_AcceptIdempotentEffective ==
    call.op = "route" =>
        LET accepted(ms, m) == MatchMethod([methods |-> ms], m)
        IN /\ call.did = "Accept" =>
                 /\ MatchMethod(call.route, call.arg)
                 /\ \A m \in MethodNames :
                       accepted(call.before, m) => MatchMethod(call.route, m)
                 /\ accepted(call.before, call.arg) => call.route.methods = call.before
                 /\ Accept(call.route, call.arg) = call.route
           /\ call.did = "Method" =>
                 \A m \in MethodNames :
                    MatchMethod(call.route, m) <=> MethodOf(m) = MethodOf(call.arg)

\* what MatchPath decides after the prefix check: the expression for a
\* compiled route, equality with the pattern for a literal one
FullMatch(r, path) == IF r.Regexp.ok THEN MatchString(r.Regexp, path) ELSE r.Pattern = path

\* C33: the check against the short pattern rejects a path only when the
\* expression of a compiled route, or the equality of a literal one, rejects
\* it too
C33_PrefixCheckOnlyRejectsMisses ==
    (call.op = "route" /\ call.did = "MatchPath") =>
        ((Len(call.route.PatternShort) > 0 /\ ~HasPrefix(call.path, call.route.PatternShort))
         => ~FullMatch(call.route, call.path))

\* C34: after any sequence of Set, Add and Remove calls, GetAll of a key
\* returns the values the key was given since its last Set or Remove, in
\* the order given, Get returns the first of them, or the empty string
\* when there are none, and the call has left every other key as it was
C34_GetAllIsGivenSinceSet ==
    (call.op = "container" /\ call.plain /\ call.did \in {"Set", "Add", "Remove"}) =>
        /\ \A k \in ContainerKeys :
              /\ call.got[k].all = call.given[k]
              /\ call.got[k].first = IF Len(call.given[k]) = 0 THEN <<>> ELSE call.given[k][1]
        /\ \A k \in ContainerKeys \ {call.key} :
              /\ call.got[k].all = ParamsGetAll(call.before, k)
              /\ k \in DOMAIN call.p <=> k \in DOMAIN call.before

\* an Add has given a key its second value, after a Set, while the other
\* key holds a value
C34_Witness ==
    /\ call.op = "container"
    /\ call.plain
    /\ call.did = "Add"
    /\ call.key = KeyId
    /\ call.given[KeyId] = <<<<"a">>, <<>>>>
    /\ call.got[KeyId].first = <<"a">>
    /\ call.got[KeyOther].all = <<<<"a">>>>

\* C35: Flatten(k) returns the values of k joined by commas in their
\* order, leaves k with that string as its only value and every other key
\* as it was, and a second Flatten(k) returns the same string and leaves
\* the container as it is
C35_FlattenJoinsAndIsIdempotent ==
    (call.op = "container" /\ call.did = "Flatten") =>
        /\ call.out = Join(ParamsGetAll(call.before, call.key), <<",">>)
        /\ call.got[call.key].all = <<call.out>>
        /\ \A k \in ContainerKeys \ {call.key} :
              /\ call.got[k].all = ParamsGetAll(call.before, k)
              /\ k \in DOMAIN call.p <=> k \in DOMAIN call.before
        /\ ParamsFlatten(call.p, call.key) = [p |-> call.p, out |-> call.out]

\* Flatten has joined the values "" and a of a key while the other key
\* holds two values
C35_Witness ==
    /\ call.op = "container"
    /\ call.did = "Flatten"
    /\ call.key = KeyId
    /\ ParamsGetAll(call.before, KeyId) = <<<<>>, <<"a">>>>
    /\ call.out = <<",", "a">>
    /\ Len(call.got[KeyOther].all) = 2

\* C36: in a container made empty and changed by Set, SetInt, Add, Remove
\* and Flatten, every key present has at least one value, and Map() does
\* not panic and gives each present key the value Get returns for it
C36_PresentKeysHaveValues ==
    call.op = "container" =>
        /\ \A k \in DOMAIN call.p : Len(call.p[k]) >= 1
        /\ call.did = "Map" =>
              /\ ~call.out.panic
              /\ DOMAIN call.out.flat = DOMAIN call.p
              /\ \A k \in DOMAIN call.p : call.out.flat[k] = ParamsGet(call.p, k)

\* Map() has run on a container that went through Flatten and SetInt and
\* holds two values for one key and an integer for the other
C36_Witness ==
    /\ call.op = "container"
    /\ call.did = "Map"
    /\ ~call.plain
    /\ DOMAIN call.p = ContainerKeys
    /\ call.p[KeyId] = <<<<",">>, <<"a">>>>
    /\ call.out.flat[KeyId] = <<",">>
    /\ call.out.flat[KeyOther] = <<"-", "7">>

\* the first n characters of p, for the least n of 3, the length of p and
\* the number of characters before its first "{"
ShortPrefix(p) ==
    LET before == IF \E k \in 1..Len(p) : p[k] = "{"
                  THEN (CHOOSE k \in 1..Len(p) :
                            p[k] = "{" /\ \A j \in 1..(k - 1) : p[j] # "{") - 1
                  ELSE Len(p)
        least(S) == CHOOSE n \in S : \A m \in S : n <= m
    IN SubSeq(p, 1, least({3, Len(p), before}))

\* C37: the short pattern of a pattern is its first min(3, length, index of
\* the first "{") characters: a prefix of the pattern of at most 3
\* characters without "{"; and it is the short pattern a route is given
C37_ShortPatternIsBoundedPrefix ==
    /\ call.op = "shortPattern" =>
          /\ call.out = ShortPrefix(call.p)
          /\ HasPrefix(call.p, call.out)
          /\ Len(call.out) <= 3
          /\ \A k \in 1..Len(call.out) : call.out[k] # "{"
    /\ (call.op = "route" /\ ~call.route.nil) =>
          call.route.PatternShort = ShortPrefix(call.pattern)

\* the short pattern of /a{a stops at the "{" in third place
C37_Witness ==
    /\ call.op = "shortPattern"
    /\ call.p = <<"/", "a", "{", "a">>
    /\ call.out = <<"/", "a">>

====
